---- MODULE Spec2Model ----
(***************************************************************************)
(* Verification model of the moexalgo request pipeline.                    *)
(*                                                                         *)
(*   Spec            session.data_gen pagination runs over Client.get_objects *)
(*   SpecThrottle    the process-wide request watermark of Client.get_objects *)
(*   SpecResponse    Client.get_objects._parse_response as a pure function *)
(*   SpecDates       metrics.prepare_from_till_dates as a pure function    *)
(*   SpecOffsetLimit metrics.calc_offset_limit as a pure function          *)
(*   SpecWire        utils.result_deserializer over one section            *)
(*   SpecMarket      market.Market constructions against the registry      *)
(*   SpecResolve     tickers._resolve_ticker as a pure function            *)
(*   SpecOperations  futoi / alerts / orderbook on markets and tickers     *)
(*   SpecResample    tools.resample.Resampler.it over trade statistics     *)
(*   SpecFetch       next.engines._common.fetch_section pagination runs    *)
(*   SpecCandles     candles.prepare_request feeding session.data_gen      *)
(*   SpecThreads     threads interleaving inside Client.get_objects        *)
(*   SpecWindows     tools.resample.resample, window by window             *)
(*   SpecStomp       beta.issplus.ISSPlusSTOMP: listener, unsubscribe, close *)
(*                                                                         *)
(* Time is counted in milliseconds.  Source records are identified by      *)
(* their position 0..N-1 in the source.                                    *)
(***************************************************************************)
EXTENDS Integers, Sequences, FiniteSets, TLC

VARIABLES
    srcN,             \* number of records the source holds
    srcP,             \* page size of the source
    srcMode,          \* "paged": honours `start`; "stuck": ignores `start`
    gen,              \* the data_gen generator objects, one per run
    now,              \* time() in ms
    NEXT_REQUEST_AT,  \* session._NEXT_REQUEST_AT in ms
    sends,            \* send times of the transport requests, in call order
    clients,          \* the free-standing clients: [sync, authorized]
    resp,             \* SpecResponse: the response under classification
    parsed,           \* SpecResponse: what _parse_response did with it
    dateArgs,         \* SpecDates: (from_date, till_date) arguments
    dateRes,          \* SpecDates: result of prepare_from_till_dates
    olArgs,           \* SpecOffsetLimit: (offset, limit) arguments
    olRes,            \* SpecOffsetLimit: result of calc_offset_limit
    wire,             \* SpecWire: the ISS section block to deserialize
    wireRes,          \* SpecWire: what result_deserializer did with it
    AVAILABLE,        \* market._AVAILABLE: the Market objects created so far
    constructions,    \* SpecMarket: the Market(...) calls made, in order
    rsArgs,           \* SpecResolve: (secid, boardid, reference data)
    rsRes,            \* SpecResolve: result of _resolve_ticker
    lastOp,           \* SpecOperations: the last futoi/alerts/orderbook call
    opCount,          \* SpecOperations: number of such calls made
    draining,         \* SpecOperations: get_objects calls the call still makes
    resPeriod,        \* SpecResample: the target period, in slots
    resInput,         \* SpecResample: the input records consumed so far
    resamplers,       \* SpecResample: the Resampler object of each ticker
    resOrder,         \* SpecResample: the keys of `resamplers` in dict order
    resOut,           \* SpecResample: the records emitted so far
    resDone,          \* SpecResample: the input is exhausted and flushed
    fetch,            \* SpecFetch: the fetch_section generator
    candleReq,        \* SpecCandles: the prepare_request call behind each run
    thr,              \* SpecThreads: the threads inside Client.get_objects
    win,              \* SpecWindows: one tools.resample.resample call
    stomp             \* SpecStomp: one ISSPlusSTOMP connection

vars == <<srcN, srcP, srcMode, gen, now, NEXT_REQUEST_AT, sends, clients,
          resp, parsed, dateArgs, dateRes, olArgs, olRes, wire, wireRes,
          AVAILABLE, constructions, rsArgs, rsRes,
          lastOp, opCount, draining,
          resPeriod, resInput, resamplers, resOrder, resOut, resDone,
          fetch, candleReq, thr, win, stomp>>

pageVars     == <<srcN, srcP, srcMode, gen>>
throttleVars == <<now, NEXT_REQUEST_AT, sends>>
respVars     == <<resp, parsed>>
dateVars     == <<dateArgs, dateRes>>
olVars       == <<olArgs, olRes>>
wireVars     == <<wire, wireRes>>
marketVars   == <<AVAILABLE, constructions>>
resolveVars  == <<rsArgs, rsRes>>
opVars       == <<lastOp, opCount, draining>>
resampleVars == <<resPeriod, resInput, resamplers, resOrder, resOut, resDone>>
fetchVars    == <<fetch>>
lateVars     == <<candleReq, thr, win, stomp>>
extVars      == <<wireVars, marketVars, resolveVars, opVars, resampleVars,
                 fetchVars, lateVars>>

None == "None"

Min(a, b) == IF a < b THEN a ELSE b
Max(a, b) == IF a > b THEN a ELSE b

-----------------------------------------------------------------------------
(* Bounds of the model *)

MaxN      == 3   \* records in the source: 0..MaxN
MaxP      == 2   \* page size: 1..MaxP
MaxOffset == 1   \* data_gen offset: 0..MaxOffset
MaxLimit  == 2   \* positive data_gen limits: 1..MaxLimit
MaxTicks  == 1   \* Spec: clock ticks before the runs' requests
MaxClock  == 8   \* SpecThrottle: clock ticks
MaxSends  == 4   \* SpecThrottle: get_objects calls
MaxCols   == 2   \* SpecWire: columns of the section
MaxRows   == 1   \* SpecWire: data rows of the section
MaxConstructions == 3   \* SpecMarket: Market(...) calls
MaxBoards == 2   \* SpecResolve: rows in a symbol's board listing
MaxOps    == 3   \* SpecOperations: futoi/alerts/orderbook calls
MaxPages  == 2   \* SpecOperations: pages an alerts call drains
MaxPeriod == 2   \* SpecResample: target period in slots: 1..MaxPeriod
MaxSlot   == 3   \* SpecResample: slots of the input records: 0..MaxSlot
MaxRecords == 3  \* SpecResample: input records
MaxThreadTicks == 3  \* SpecThreads: clock ticks
MaxFrames == 2   \* SpecStomp: frames the server sends
MaxWinSlot == 2      \* SpecWindows: five-minute slots of the first day: 0..MaxWinSlot
MaxWinRecords == 2   \* SpecWindows: input records

-----------------------------------------------------------------------------
(* Client.get_objects: throttle *)

REQUEST_TIMEOUT == 100    \* _REQUEST_TIMEOUT = 0.1 s
NoWaitTimeout   == 200    \* timeout = 0.2 s when nothing has to be waited for

TickMs == REQUEST_TIMEOUT \div 2

\* timeout = _NEXT_REQUEST_AT - time(); if self.authorized or timeout <= 0: ...
Timeout(auth, at, t) ==
    IF auth \/ at - t <= 0 THEN NoWaitTimeout ELSE at - t

\* Mutation: the waited delay is left out of the new watermark
NextRequestAtNoWait(auth, at, t) == t + REQUEST_TIMEOUT

\* _NEXT_REQUEST_AT = time() + _REQUEST_TIMEOUT + timeout
NextRequestAt(auth, at, t) == t + REQUEST_TIMEOUT + Timeout(auth, at, t)

\* The throttle part of one get_objects call.  A blocking client sleeps the
\* timeout inside the call; a cooperative one returns the coroutine at once
\* and the request goes out `timeout` later.  `sends` records when the
\* request goes out and whether the caller was authorized.
Throttle(auth, sync) ==
    /\ NEXT_REQUEST_AT' = NextRequestAt(auth, NEXT_REQUEST_AT, now)
    /\ sends' = Append(sends,
                    [at   |-> now + Timeout(auth, NEXT_REQUEST_AT, now),
                     auth |-> auth])
    /\ now' = IF sync THEN now + Timeout(auth, NEXT_REQUEST_AT, now) ELSE now

Clients == {"c1", "c2"}

\* Client.authorized: bool(self.options.get('auth_cert'))
Authorized(c) == clients[c].authorized

\* Client.authorize: options['auth_cert'] is the certificate or None for a
\* blocking client, and the not yet awaited coroutine for a cooperative one
Authorize(c, ok) ==
    /\ clients' = [clients EXCEPT
                      ![c].authorized = IF clients[c].sync THEN ok ELSE TRUE]
    /\ UNCHANGED <<pageVars, throttleVars, respVars, dateVars, olVars, extVars>>

\* One Client.get_objects call, as far as the watermark goes
Call(c) ==
    /\ Len(sends) < MaxSends
    /\ Throttle(Authorized(c), clients[c].sync)
    /\ UNCHANGED <<pageVars, clients, respVars, dateVars, olVars, extVars>>

\* Time passes
TickClock ==
    /\ now < MaxClock * TickMs
    /\ now' = now + TickMs
    /\ UNCHANGED <<pageVars, NEXT_REQUEST_AT, sends, clients, respVars,
                   dateVars, olVars, extVars>>

-----------------------------------------------------------------------------
(* Client.get_objects: classification of the response *)

\* What the transport can answer.  status 0 stands for no response at all
\* (httpx raises from httpx_cli.get); ctype None for a response without a
\* content-type header; body is the text of the response: "empty" parses to
\* an empty document, "invalid" does not parse, "nosection" is a document
\* without the requested section, "doc" a document with it.
Statuses == {200, 204, 301, 403, 404, 500}
CTypes   == {"application/json", "application/json; charset=utf-8",
             "text/html", None}
Bodies   == {"empty", "invalid", "nosection", "doc"}

HttpResponses == [status : Statuses, ctype : CTypes, body : Bodies]
NoResponse    == [status |-> 0, ctype |-> None, body |-> "empty"]

\* httpx.Response.is_success
IsSuccess(status) == status >= 200 /\ status <= 299

\* resp.headers['content-type'].startswith('application/json')
StartsWithJson(ctype) ==
    ctype \in {"application/json", "application/json; charset=utf-8"}

Pending ==
    [kind |-> "pending", exc |-> None, status |-> 0, deser |-> FALSE,
     items |-> <<>>]
Raised(exc, status, called) ==
    [kind |-> "raise", exc |-> exc, status |-> status, deser |-> called,
     items |-> <<>>]
Returned(items) ==
    [kind |-> "return", exc |-> None, status |-> 0, deser |-> TRUE,
     items |-> items]

\* result_deserializer(data, section) followed by items.get(section) of the
\* caller: the rows of the section, in order; a document without the
\* section raises KeyError at data[section].
Deserialized(body, rows) ==
    IF body = "nosection" THEN Raised("KeyError", 0, TRUE) ELSE Returned(rows)

\* Mutation: a section without rows counts as a malformed response
ParseResponseEmptyRows(r, rows) ==
    IF ~IsSuccess(r.status) THEN Raised("HTTPStatusError", r.status, FALSE)
    ELSE IF r.ctype = None THEN Raised("KeyError", 0, FALSE)
    ELSE IF ~StartsWithJson(r.ctype) THEN Raised("HTTPStatusError", 403, FALSE)
    ELSE IF r.body = "invalid" THEN Raised("ValueError", 0, FALSE)
    ELSE IF r.body # "empty" /\ rows # <<>> THEN Deserialized(r.body, rows)
    ELSE Raised("ValueError", 0, FALSE)

\* _parse_response(resp), `rows` being the rows of the requested section
ParseResponse(r, rows) ==
    IF ~IsSuccess(r.status) THEN Raised("HTTPStatusError", r.status, FALSE)
    ELSE IF r.ctype = None THEN Raised("KeyError", 0, FALSE)
    ELSE IF ~StartsWithJson(r.ctype) THEN Raised("HTTPStatusError", 403, FALSE)
    ELSE IF r.body = "invalid" THEN Raised("ValueError", 0, FALSE)
    ELSE IF r.body # "empty" THEN Deserialized(r.body, rows)
    ELSE Raised("ValueError", 0, FALSE)

\* The result of one get_objects call of a blocking client
GetObjects(r, rows) ==
    IF r = NoResponse THEN Raised("TransportError", 0, FALSE)
    ELSE ParseResponse(r, rows)

-----------------------------------------------------------------------------
(* metrics.prepare_from_till_dates *)

\* A date is <<year, month, day>>; a string is the sequence of its character
\* codes; an argument is None, a date or a string.
NoDate == <<0, 0, 0>>
NoArg      == [tag |-> "none", val |-> <<>>]
DateArg(d) == [tag |-> "date", val |-> d]
StrArg(s)  == [tag |-> "str", val |-> s]

Hyphen   == 45
Digit(n) == 48 + n
TodayStr == <<116, 111, 100, 97, 121>>

IsDigit(c) == c >= 48 /\ c <= 57
Num(s, i, j) ==
    LET RECURSIVE acc(_, _)
        acc(k, v) == IF k > j THEN v ELSE acc(k + 1, 10 * v + (s[k] - 48))
    IN  acc(i, 0)

IsLeap(y) == (y % 4 = 0 /\ y % 100 # 0) \/ y % 400 = 0
DaysIn(y, m) ==
    IF m = 2 THEN (IF IsLeap(y) THEN 29 ELSE 28)
    ELSE IF m \in {4, 6, 9, 11} THEN 30 ELSE 31

\* date.fromisoformat(s): YYYY-MM-DD, else ValueError
FromIsoFormat(s) ==
    IF /\ Len(s) = 10
       /\ s[5] = Hyphen /\ s[8] = Hyphen
       /\ \A i \in {1, 2, 3, 4, 6, 7, 9, 10} : IsDigit(s[i])
    THEN LET y == Num(s, 1, 4)
             m == Num(s, 6, 7)
             d == Num(s, 9, 10)
         IN  IF y >= 1 /\ m >= 1 /\ m <= 12 /\ d >= 1 /\ d <= DaysIn(y, m)
             THEN [ok |-> TRUE, d |-> <<y, m, d>>]
             ELSE [ok |-> FALSE, d |-> NoDate]
    ELSE [ok |-> FALSE, d |-> NoDate]

\* date.isoformat()
IsoFormat(d) ==
    << Digit(d[1] \div 1000), Digit((d[1] \div 100) % 10),
       Digit((d[1] \div 10) % 10), Digit(d[1] % 10), Hyphen,
       Digit(d[2] \div 10), Digit(d[2] % 10), Hyphen,
       Digit(d[3] \div 10), Digit(d[3] % 10) >>

\* Mutation: equal dates are refused too
DateGtOrEqual(a, b) ==
    \/ a[1] > b[1]
    \/ a[1] = b[1] /\ a[2] > b[2]
    \/ a[1] = b[1] /\ a[2] = b[2] /\ a[3] >= b[3]

\* date.__gt__
DateGt(a, b) ==
    \/ a[1] > b[1]
    \/ a[1] = b[1] /\ a[2] > b[2]
    \/ a[1] = b[1] /\ a[2] = b[2] /\ a[3] > b[3]

NoResult        == [kind |-> "pending", exc |-> None, val |-> <<>>]
DatesRaise(exc) == [kind |-> "raise", exc |-> exc, val |-> <<>>]
DatesReturn(a, b) == [kind |-> "return", exc |-> None, val |-> <<a, b>>]

\* if (from_date is None) or (till_date is None): raise ISSTickerParamException()
MissingDates(from, till) == from.tag = "none" \/ till.tag = "none"

\* from_date = date.fromisoformat(from_date) if isinstance(from_date, str)
\*             else (from_date or date.today())
FromDate(from, today) ==
    IF from.tag = "str" THEN FromIsoFormat(from.val)
    ELSE IF from.tag = "date" THEN [ok |-> TRUE, d |-> from.val]
    ELSE [ok |-> TRUE, d |-> today]

\* if not till_date: till_date = from_date
\* elif isinstance(till_date, str): today or date.fromisoformat(till_date)
TillDate(till, fromd, today) ==
    IF till.tag = "none" \/ (till.tag = "str" /\ till.val = <<>>)
    THEN [ok |-> TRUE, d |-> fromd]
    ELSE IF till.tag = "str"
    THEN (IF till.val = TodayStr THEN [ok |-> TRUE, d |-> today]
          ELSE FromIsoFormat(till.val))
    ELSE [ok |-> TRUE, d |-> till.val]

prepare_from_till_dates(from, till, today) ==
    IF MissingDates(from, till) THEN DatesRaise("ISSTickerParamException")
    ELSE LET f == FromDate(from, today)
         IN  IF ~f.ok THEN DatesRaise("ValueError")
             ELSE LET t == TillDate(till, f.d, today)
                  IN  IF ~t.ok THEN DatesRaise("ValueError")
                      ELSE IF DateGt(f.d, t.d)
                      THEN DatesRaise("ISSDateParamException")
                      ELSE DatesReturn(IsoFormat(f.d), IsoFormat(t.d))

-----------------------------------------------------------------------------
(* metrics.calc_offset_limit *)

min_limit      == 1
standart_limit == 10000
max_limit      == 50000
min_offset     == 0

\* An optional integer argument: None or a value
NoInt     == [given |-> FALSE, val |-> 0]
IntArg(n) == [given |-> TRUE, val |-> n]
NoPair    == [done |-> FALSE, offset |-> NoInt, limit |-> NoInt]

\* x or default
OrDefault(x, default) == IF x.given /\ x.val # 0 THEN x.val ELSE default

\* limit = min_limit if limit < min_limit else max_limit if limit > max_limit else limit
ClampLimit(l) ==
    IF l < min_limit THEN min_limit ELSE IF l > max_limit THEN max_limit ELSE l

\* offset = min_offset if offset < min_offset
\*          else max_limit - 1 if offset >= max_limit else offset
ClampOffset(o) ==
    IF o < min_offset THEN min_offset
    ELSE IF o >= max_limit THEN max_limit - 1 ELSE o

\* if limit != -1:
IsBounded(limit) == ~(limit.given /\ limit.val = -1)

calc_offset_limit(offset, limit) ==
    LET o == OrDefault(offset, min_offset)
    IN  IF IsBounded(limit)
        THEN [done |-> TRUE,
              offset |-> IntArg(ClampOffset(o)),
              limit |-> IntArg(ClampLimit(OrDefault(limit, standart_limit)))]
        ELSE [done |-> TRUE, offset |-> IntArg(o), limit |-> limit]

-----------------------------------------------------------------------------
(* The source behind the transport *)

\* The rows the source serves for cursor `st`
Page(st) ==
    IF srcMode = "stuck"
    THEN [i \in 1..Min(srcP, srcN) |-> i - 1]
    ELSE [i \in 1..Max(0, Min(st + srcP, srcN) - st) |-> st + i - 1]

-----------------------------------------------------------------------------
(* session.data_gen *)

\* Two generator objects, alive at the same time
Runs == {"g1", "g2"}

\* The responses a run's transport calls are answered with
RunResponses ==
    { [status |-> 200, ctype |-> "application/json; charset=utf-8", body |-> "doc"],
      [status |-> 200, ctype |-> "application/json", body |-> "empty"],
      [status |-> 500, ctype |-> "text/html", body |-> "doc"],
      NoResponse }

NoGen ==
    [pc |-> "none", offset |-> 0, limit |-> 0, start |-> -1, metrics |-> <<>>,
     idx |-> 0, out |-> <<>>, starts |-> <<>>, last |-> NoResponse,
     err |-> Returned(<<>>)]

\* Mutation: the limit is tested with > instead of >=
LimitReachedStrict(st, off, lim) == (st - off) > lim /\ lim > 0

\* (start - offset) >= limit and limit > 0
LimitReached(st, off, lim) == (st - off) >= lim /\ lim > 0

\* Mutation: the unbounded mode keeps fetching after a page
StopAfterPageNever(lim) == FALSE

\* if limit < 0: return   (after the page has been yielded)
StopAfterPage(lim) == lim < 0

\* Mutation: the cursor of a new run starts at 0 instead of at offset
ResumeFromZero(g) ==
    IF g.pc = "created"
    THEN [g EXCEPT !.start = 0, !.pc = "fetch"]
    ELSE LET s == g.start + 1
         IN  IF LimitReached(s, g.offset, g.limit)
             THEN [g EXCEPT !.start = s, !.pc = "done"]
             ELSE IF g.idx < Len(g.metrics)
             THEN [g EXCEPT !.start = s, !.idx = g.idx + 1,
                            !.out = Append(g.out, g.metrics[g.idx + 1])]
             ELSE IF StopAfterPage(g.limit)
             THEN [g EXCEPT !.start = s, !.pc = "done"]
             ELSE [g EXCEPT !.start = s, !.pc = "fetch"]

\* The code a next() runs up to the next fetch, yield or return:
\* pc "fetch" says that the loop is about to call get_objects.
Resume(g) ==
    IF g.pc = "created"
    THEN [g EXCEPT !.start = g.offset, !.pc = "fetch"]
    ELSE LET s == g.start + 1
         IN  IF LimitReached(s, g.offset, g.limit)
             THEN [g EXCEPT !.start = s, !.pc = "done"]
             ELSE IF g.idx < Len(g.metrics)
             THEN [g EXCEPT !.start = s, !.idx = g.idx + 1,
                            !.out = Append(g.out, g.metrics[g.idx + 1])]
             ELSE IF StopAfterPage(g.limit)
             THEN [g EXCEPT !.start = s, !.pc = "done"]
             ELSE [g EXCEPT !.start = s, !.pc = "fetch"]

\* Mutation: a failed call is retried by the next request for a record
FetchedRetry(g, r) ==
    LET res == GetObjects(r, Page(g.start))
        g1  == [g EXCEPT !.starts = Append(g.starts, g.start), !.last = r]
    IN  IF res.kind = "raise"
        THEN [g1 EXCEPT !.pc = "suspended", !.metrics = <<>>, !.idx = 0,
                        !.start = g.start - 1]
        ELSE IF res.items # <<>>
        THEN [g1 EXCEPT !.pc = "suspended", !.metrics = res.items, !.idx = 1,
                        !.out = Append(g.out, res.items[1])]
        ELSE [g1 EXCEPT !.pc = "done"]

\* options['start'] = start; items = client.get_objects(...);
\* if metrics := items.get(section): ... yield the first item ... else: return
Fetched(g, r) ==
    LET res == GetObjects(r, Page(g.start))
        g1  == [g EXCEPT !.starts = Append(g.starts, g.start), !.last = r]
    IN  IF res.kind = "raise"
        THEN [g1 EXCEPT !.pc = "error", !.err = res]
        ELSE IF res.items # <<>>
        THEN [g1 EXCEPT !.pc = "suspended", !.metrics = res.items, !.idx = 1,
                        !.out = Append(g.out, res.items[1])]
        ELSE [g1 EXCEPT !.pc = "done"]

\* Mutation: the first page is fetched when the generator is created
InvokeEager(r, off, lim) ==
    /\ gen[r].pc = "none"
    /\ \E rs \in RunResponses :
          gen' = [gen EXCEPT ![r] =
                     Fetched([NoGen EXCEPT !.pc = "fetch", !.offset = off,
                                           !.limit = lim, !.start = off], rs)]
    /\ Throttle(FALSE, TRUE)
    /\ UNCHANGED <<srcN, srcP, srcMode, clients, respVars, dateVars, olVars,
                   extVars>>

\* data_gen(cs, path, options, offset, limit): creates the generator
Invoke(r, off, lim) ==
    /\ gen[r].pc = "none"
    /\ gen' = [gen EXCEPT ![r] = [NoGen EXCEPT !.pc = "created",
                                               !.offset = off, !.limit = lim]]
    /\ UNCHANGED <<srcN, srcP, srcMode, throttleVars, clients, respVars,
                   dateVars, olVars, extVars>>

\* next(it) of the consumer
NextRecord(r) ==
    /\ gen[r].pc \in {"created", "suspended"}
    /\ LET g == Resume(gen[r])
       IN  IF g.pc = "fetch"
           THEN /\ \E rs \in RunResponses :
                      gen' = [gen EXCEPT ![r] = Fetched(g, rs)]
                /\ Throttle(FALSE, TRUE)
           ELSE /\ gen' = [gen EXCEPT ![r] = g]
                /\ UNCHANGED throttleVars
    /\ UNCHANGED <<srcN, srcP, srcMode, clients, respVars, dateVars, olVars, extVars>>

\* The consumer drops the iterator: the generator is closed where it stands
Abandon(r) ==
    /\ gen[r].pc \in {"created", "suspended"}
    /\ gen' = [gen EXCEPT ![r].pc = "closed"]
    /\ UNCHANGED <<srcN, srcP, srcMode, throttleVars, clients, respVars,
                   dateVars, olVars, extVars>>

\* Time passes
Tick ==
    /\ now < MaxTicks * TickMs
    /\ now' = now + TickMs
    /\ UNCHANGED <<pageVars, NEXT_REQUEST_AT, sends, clients, respVars,
                   dateVars, olVars, extVars>>

-----------------------------------------------------------------------------
(* utils.result_deserializer and utils.item_normalizer *)

\* A JSON cell is null, a number or a string (a sequence of character codes);
\* a converted value carries the Python type it has after normalisation.
NullCell    == [tag |-> "null", v |-> <<>>]
NumCell(n)  == [tag |-> "num", v |-> <<n>>]
TextCell(s) == [tag |-> "text", v |-> s]

PyNone          == [tag |-> "none", v |-> <<>>]
PyValue(tag, v) == [tag |-> tag, v |-> v]

NoneStr      == <<78, 111, 110, 101>>
ZeroDateStr  == <<48, 48, 48, 48, 45, 48, 48, 45, 48, 48>>

Converted(val) == [ok |-> TRUE, exc |-> None, val |-> val]
ConvError(exc) == [ok |-> FALSE, exc |-> exc, val |-> PyNone]

\* str.strip(): leading and trailing blanks removed
RECURSIVE LStrip(_)
LStrip(s) == IF s # <<>> /\ Head(s) = 32 THEN LStrip(Tail(s)) ELSE s
RECURSIVE RStrip(_)
RStrip(s) ==
    IF s # <<>> /\ s[Len(s)] = 32 THEN RStrip(SubSeq(s, 1, Len(s) - 1)) ELSE s
Strip(s) == LStrip(RStrip(s))

AllDigits(s) == s # <<>> /\ \A i \in 1..Len(s) : IsDigit(s[i])

\* str(n) of a natural number
RECURSIVE StrOfNat(_)
StrOfNat(n) ==
    IF n < 10 THEN <<Digit(n)>> ELSE Append(StrOfNat(n \div 10), Digit(n % 10))

\* 'int32', 'int64': lambda s: int(s) if s is not None else None
ConvInt(c) ==
    IF c.tag = "null" THEN Converted(PyNone)
    ELSE IF c.tag = "num" THEN Converted(PyValue("int", c.v))
    ELSE IF AllDigits(Strip(c.v))
    THEN Converted(PyValue("int", <<Num(Strip(c.v), 1, Len(Strip(c.v)))>>))
    ELSE ConvError("ValueError")

\* 'double': lambda s: float(s) if s is not None else None
ConvDouble(c) ==
    IF c.tag = "null" THEN Converted(PyNone)
    ELSE IF c.tag = "num" THEN Converted(PyValue("float", c.v))
    ELSE IF AllDigits(Strip(c.v))
    THEN Converted(PyValue("float", <<Num(Strip(c.v), 1, Len(Strip(c.v)))>>))
    ELSE ConvError("ValueError")

\* 'date': lambda s: date.fromisoformat(s.strip())
\*                   if (s is not None) and (s != '0000-00-00') else None
ConvDate(c) ==
    IF c.tag = "null" THEN Converted(PyNone)
    ELSE IF c.tag = "num" THEN ConvError("AttributeError")
    ELSE IF c.v = ZeroDateStr THEN Converted(PyNone)
    ELSE LET d == FromIsoFormat(Strip(c.v))
         IN  IF d.ok THEN Converted(PyValue("date", d.d))
             ELSE ConvError("ValueError")

\* time.fromisoformat: HH, HH:MM or HH:MM:SS
TimeFromIsoFormat(s) ==
    IF /\ Len(s) \in {2, 5, 8}
       /\ \A i \in 1..Len(s) : IF i \in {3, 6} THEN s[i] = 58 ELSE IsDigit(s[i])
    THEN LET h  == Num(s, 1, 2)
             mi == IF Len(s) >= 5 THEN Num(s, 4, 5) ELSE 0
             se == IF Len(s) >= 8 THEN Num(s, 7, 8) ELSE 0
         IN  IF h <= 23 /\ mi <= 59 /\ se <= 59
             THEN [ok |-> TRUE, t |-> <<h, mi, se>>]
             ELSE [ok |-> FALSE, t |-> <<0, 0, 0>>]
    ELSE [ok |-> FALSE, t |-> <<0, 0, 0>>]

\* datetime.fromisoformat: YYYY-MM-DD, optionally one separator and a time
DateTimeFromIsoFormat(s) ==
    IF Len(s) < 10 THEN [ok |-> FALSE, dt |-> <<>>]
    ELSE LET d == FromIsoFormat(SubSeq(s, 1, 10))
             t == IF Len(s) = 10 THEN [ok |-> TRUE, t |-> <<0, 0, 0>>]
                  ELSE IF Len(s) = 11 THEN [ok |-> FALSE, t |-> <<0, 0, 0>>]
                  ELSE TimeFromIsoFormat(SubSeq(s, 12, Len(s)))
         IN  IF d.ok /\ t.ok THEN [ok |-> TRUE, dt |-> d.d \o t.t]
             ELSE [ok |-> FALSE, dt |-> <<>>]

\* 'datetime': lambda s: datetime.fromisoformat(s.strip())
\*                       if s is not None else None
ConvDateTime(c) ==
    IF c.tag = "null" THEN Converted(PyNone)
    ELSE IF c.tag = "num" THEN ConvError("AttributeError")
    ELSE LET d == DateTimeFromIsoFormat(Strip(c.v))
         IN  IF d.ok THEN Converted(PyValue("datetime", d.dt))
             ELSE ConvError("ValueError")

\* 'time': lambda s: time.fromisoformat(s.strip()) if s is not None else None
ConvTime(c) ==
    IF c.tag = "null" THEN Converted(PyNone)
    ELSE IF c.tag = "num" THEN ConvError("AttributeError")
    ELSE LET t == TimeFromIsoFormat(Strip(c.v))
         IN  IF t.ok THEN Converted(PyValue("time", t.t))
             ELSE ConvError("ValueError")

\* the fallback of conv.get(type, str): str(value)
ConvStr(c) ==
    IF c.tag = "null" THEN Converted(PyValue("str", NoneStr))
    ELSE IF c.tag = "num" THEN Converted(PyValue("str", StrOfNat(c.v[1])))
    ELSE Converted(PyValue("str", c.v))

\* conv.get(metadata[key]['type'], str)(value)
Convert(type, c) ==
    IF type \in {"int32", "int64"} THEN ConvInt(c)
    ELSE IF type = "double" THEN ConvDouble(c)
    ELSE IF type = "date" THEN ConvDate(c)
    ELSE IF type = "datetime" THEN ConvDateTime(c)
    ELSE IF type = "time" THEN ConvTime(c)
    ELSE ConvStr(c)

\* zip(columns, values): pairs up to the end of the shorter of the two
Zip(columns, values) ==
    [i \in 1..Min(Len(columns), Len(values)) |->
        [key |-> columns[i], value |-> values[i]]]

\* A dict is the sequence of its items in insertion order.
\* item_normalizer(metadata, item): every value converted by the column's
\* type; the first conversion that fails raises out of the call.
item_normalizer(metadata, item) ==
    LET conv(i) == Convert(metadata[item[i].key], item[i].value)
        bad     == {i \in 1..Len(item) : ~conv(i).ok}
    IN  IF bad = {}
        THEN [ok |-> TRUE, exc |-> None,
              item |-> [i \in 1..Len(item) |->
                           [key |-> item[i].key, value |-> conv(i).val]]]
        ELSE [ok |-> FALSE,
              exc |-> conv(CHOOSE i \in bad : \A j \in bad : i <= j).exc,
              item |-> <<>>]

\* One section of an ISS document: metadata, columns, data
Block(metadata, columns, data) ==
    [metadata |-> metadata, columns |-> columns, data |-> data]
NoBlock == Block(<<>>, <<>>, <<>>)

WirePending      == [kind |-> "pending", exc |-> None, items |-> <<>>]
WireRaised(exc)  == [kind |-> "raise", exc |-> exc, items |-> <<>>]
WireReturned(xs) == [kind |-> "return", exc |-> None, items |-> xs]

\* result_deserializer(data, section) without a key function: the rows of the
\* section in order, each zipped with `columns` and normalised
result_deserializer(block) ==
    LET norm(k) == item_normalizer(block.metadata, Zip(block.columns, block.data[k]))
        bad     == {k \in 1..Len(block.data) : ~norm(k).ok}
    IN  IF bad = {}
        THEN WireReturned([k \in 1..Len(block.data) |-> norm(k).item])
        ELSE WireRaised(norm(CHOOSE k \in bad : \A j \in bad : k <= j).exc)

-----------------------------------------------------------------------------
(* market.Market: the registry of market objects *)

\* A market name is the sequence of its '/'-separated segments, so a name
\* holds a '/' exactly when it has more than one segment.
StockPath(m) == <<"engines", "stock", "markets", m>>
SeltPath     == <<"engines", "currency", "markets", "selt">>
FortsPath    == <<"engines", "futures", "markets", "forts">>

AVAILABLE_KEYS == {"index", "shares", "selt", "forts"}

Alias(path, boardid) == [path |-> path, boardid |-> boardid]

ALIASES ==
    [index    |-> Alias(StockPath("index"), "SNDX"),
     shares   |-> Alias(StockPath("shares"), "TQBR"),
     stock    |-> Alias(StockPath("shares"), "TQBR"),
     stocks   |-> Alias(StockPath("shares"), "TQBR"),
     EQ       |-> Alias(StockPath("shares"), "TQBR"),
     selt     |-> Alias(SeltPath, "CETS"),
     FX       |-> Alias(SeltPath, "CETS"),
     currency |-> Alias(SeltPath, "CETS"),
     forts    |-> Alias(FortsPath, "RFUD"),
     FO       |-> Alias(FortsPath, "RFUD"),
     futures  |-> Alias(FortsPath, "RFUD")]

\* v[0].startswith(path), for a path whose last segment is a whole market name
StartsWith(full, path) ==
    Len(path) <= Len(full) /\ SubSeq(full, 1, Len(path)) = path

\* prefs = [k for k, v in _ALIASES.items()
\*          if v[0].startswith(path) and len(k) == 2]; prefs[0].lower() or None
Pref(path) ==
    IF StartsWith(ALIASES["EQ"].path, path) THEN "eq"
    ELSE IF StartsWith(ALIASES["FX"].path, path) THEN "fx"
    ELSE IF StartsWith(ALIASES["FO"].path, path) THEN "fo"
    ELSE None

\* A Market object; `id` stands for the identity of the instance
MarketObject(id, name, path, boardid) ==
    [id |-> id, name |-> name, path |-> path, pref |-> Pref(path),
     boardid |-> boardid]
NoMarket == [id |-> 0, name |-> None, path |-> <<>>, pref |-> None,
             boardid |-> None]

MarketRaised(exc)  == [kind |-> "raise", exc |-> exc, obj |-> NoMarket]
MarketReturned(ob) == [kind |-> "return", exc |-> None, obj |-> ob]

\* path, default_boardid = _ALIASES.get(name, (None, None)) for a name
\* without '/'; the name itself as path otherwise
ResolvedPath(name) ==
    IF Len(name) = 1
    THEN (IF name[1] \in DOMAIN ALIASES THEN ALIASES[name[1]].path ELSE <<>>)
    ELSE name

\* boardid = boardid or default_boardid, for a name without '/'
ResolvedBoard(name, boardid) ==
    IF Len(name) = 1 /\ boardid = None
    THEN (IF name[1] \in DOMAIN ALIASES THEN ALIASES[name[1]].boardid
          ELSE None)
    ELSE boardid

\* Market.__new__(cls, name, boardid) against the registry `avail`, the set
\* of the objects held in _AVAILABLE: the outcome of the call
MarketNew(name, boardid, avail) ==
    IF Len(name) = 1 /\ name[1] \notin DOMAIN ALIASES
    THEN MarketRaised("AttributeError")     \* path is None: None.split('/')
    ELSE LET path  == ResolvedPath(name)
             board == ResolvedBoard(name, boardid)
             last  == path[Len(path)]
             held  == {o \in avail : o.name = last /\ o.boardid = board}
         IN  IF last \notin AVAILABLE_KEYS
             THEN MarketRaised("NotImplementedError")
             ELSE IF held # {}
             THEN MarketReturned(CHOOSE o \in held : TRUE)
             ELSE MarketReturned(
                      MarketObject(Cardinality(avail) + 1, last, path, board))

\* moexalgo.Market(secid, boardid): the old registry first, the new-style
\* resolver when it raises NotImplementedError
PackageMarket(name, boardid, avail) ==
    LET old == MarketNew(name, boardid, avail)
    IN  IF old.kind = "raise" /\ old.exc = "NotImplementedError"
        THEN "NewMarket"
        ELSE IF old.kind = "raise" THEN old.exc
        ELSE "OldMarket"

-----------------------------------------------------------------------------
(* tickers._resolve_ticker *)

\* Symbols and board ids are sequences of character codes; an optional board
\* argument is [given, val].
NoBoard      == [given |-> FALSE, val |-> <<>>]
BoardArg(b)  == [given |-> TRUE, val |-> b]

IsLetter(c) == (c >= 65 /\ c <= 90) \/ (c >= 97 /\ c <= 122)

\* Mutation: the hyphen separates too
IsSeparatorOrHyphen(c) == ~(IsLetter(c) \/ IsDigit(c))

\* the characters matched by "[^a-zA-Z0-9-]"
IsSeparator(c) == ~(IsLetter(c) \/ IsDigit(c) \/ c = Hyphen)

\* re.split("[^a-zA-Z0-9-]", s): the pieces between separator characters
RECURSIVE ReSplit(_)
ReSplit(s) ==
    LET seps == {i \in 1..Len(s) : IsSeparator(s[i])}
    IN  IF seps = {} THEN <<s>>
        ELSE LET i == CHOOSE k \in seps : \A j \in seps : k <= j
             IN  <<SubSeq(s, 1, i - 1)>> \o ReSplit(SubSeq(s, i + 1, Len(s)))

\* if boardid is None:
\*     secid, *args = re.split(...); if args: boardid = args[0]
LookupSecid(secid, boardid) ==
    IF boardid.given THEN secid ELSE ReSplit(secid)[1]
LookupBoard(secid, boardid) ==
    IF boardid.given THEN boardid
    ELSE IF Len(ReSplit(secid)) > 1 THEN BoardArg(ReSplit(secid)[2])
    ELSE NoBoard

\* One row of the `boards` section
BoardRow(boardid, is_primary) ==
    [boardid |-> boardid, is_primary |-> is_primary, market |-> "shares",
     engine |-> "stock"]
NoRow == BoardRow(<<>>, 0)

\* The outcome of a call, with the symbol and the board it worked with
ResolveResult(kind, exc, secid, boardid, row) ==
    [kind |-> kind, exc |-> exc, secid |-> secid, boardid |-> boardid,
     row |-> row]
ResolvePending == ResolveResult("pending", None, <<>>, NoBoard, NoRow)
ResolveNone(secid, boardid) ==
    ResolveResult("none", None, secid, boardid, NoRow)
ResolveRaised(exc, secid, boardid) ==
    ResolveResult("raise", exc, secid, boardid, NoRow)
Resolved(secid, boardid, row) ==
    ResolveResult("return", None, secid, boardid, row)

\* get_secid_info_and_boards(secid) against the reference data `listing`
\* (symbol -> rows of its boards, in order): ISS answers an unlisted symbol
\* with empty sections, and sections['boards'] then raises KeyError
BoardsOf(listing, secid) ==
    IF secid \in DOMAIN listing THEN listing[secid] ELSE <<>>

\* found = [board for name, board in boards.items() if board["is_primary"]]
Primary(boards) ==
    SelectSeq(boards, LAMBDA b : b.is_primary # 0)

\* board_info = found[0]
BoardInfo(boards) == Primary(boards)[1]

\* _resolve_ticker(secid, boardid)
resolve_ticker(secid, boardid, listing) ==
    LET sec    == LookupSecid(secid, boardid)
        board  == LookupBoard(secid, boardid)
        boards == BoardsOf(listing, sec)
    IN  IF boards = <<>> THEN ResolveNone(sec, board)     \* except KeyError
        ELSE IF Primary(boards) = <<>> THEN ResolveNone(sec, board)
        ELSE IF /\ board.given /\ board.val # <<>>
                /\ board.val # BoardInfo(boards).boardid
        THEN ResolveRaised("ValueError", sec, board)
        ELSE Resolved(sec, board, BoardInfo(boards))

-----------------------------------------------------------------------------
(* Market.futoi, Market.alerts, _Ticker.orderbook: operations a market or a
   ticker may not support *)

\* Mutation: FUTOI is attempted on every market
FutoiSupportedAlways(path) == TRUE

\* if not self._path.startswith('engines/futures/markets'): raise ...
FutoiSupported(path) == StartsWith(path, <<"engines", "futures", "markets">>)

\* if not self._path.startswith('engines/stock/markets'): raise ...
AlertsSupported(path) == StartsWith(path, <<"engines", "stock", "markets">>)

\* if self._PATH.startswith("engines/currency/markets"): raise ...
OrderbookSupported(path) ==
    ~StartsWith(path, <<"engines", "currency", "markets">>)

Operation(op, path, dataframe, outcome) ==
    [op |-> op, path |-> path, dataframe |-> dataframe, outcome |-> outcome]
NoOperation == Operation(None, <<>>, FALSE, None)

\* One operation on a market or ticker with the given path.  An unsupported
\* one raises at once.  A supported one builds the data_gen generator; with
\* use_dataframe the generator is drained into a frame inside the call, which
\* takes `calls` get_objects calls of the generator's own blocking client
\* (the first of them in this step), and without it the generator is handed
\* back untouched.
Operate(op, path, dataframe, supported, calls) ==
    /\ opCount < MaxOps
    /\ draining = 0
    /\ opCount' = opCount + 1
    /\ IF ~supported
       THEN /\ lastOp' = Operation(op, path, dataframe, "NotImplementedError")
            /\ draining' = 0
            /\ UNCHANGED throttleVars
       ELSE IF ~dataframe
       THEN /\ lastOp' = Operation(op, path, dataframe, "iterator")
            /\ draining' = 0
            /\ UNCHANGED throttleVars
       ELSE /\ lastOp' = Operation(op, path, dataframe, "frame")
            /\ draining' = calls - 1
            /\ Throttle(FALSE, TRUE)
    /\ UNCHANGED <<pageVars, clients, respVars, dateVars, olVars, wireVars,
                   marketVars, resolveVars,
                   resampleVars, fetchVars, lateVars>>

\* Market.futoi(...): data_gen with limit=-1 ends after its first page
Futoi(path, dataframe) ==
    Operate("futoi", path, dataframe, FutoiSupported(path), 1)

\* Market.alerts(...): data_gen pages until the empty page
Alerts(path, dataframe, calls) ==
    Operate("alerts", path, dataframe, AlertsSupported(path), calls)

\* _Ticker.orderbook(...): data_gen with limit=-1
Orderbook(path, dataframe) ==
    Operate("orderbook", path, dataframe, OrderbookSupported(path), 1)

\* The next page of a generator that is being drained into a frame
Drain ==
    /\ draining > 0
    /\ draining' = draining - 1
    /\ Throttle(FALSE, TRUE)
    /\ UNCHANGED <<pageVars, clients, respVars, dateVars, olVars, wireVars,
                   marketVars, resolveVars, lastOp, opCount,
                   resampleVars, fetchVars, lateVars>>

-----------------------------------------------------------------------------
(* tools.resample: Resampler over trade statistics *)

\* Time is counted in slots of five minutes from midnight of day 0: the
\* record of slot s has begin = s and end = s + 1; a period is a number of
\* slots.
SlotSeconds == 300    \* timedelta(minutes=5).total_seconds()
DaySlots    == 288    \* slots in a day

\* The fields _tradestats_calculator sums into integers
FlowFields == {"vol", "trades", "trades_b", "trades_s", "vol_b", "vol_s"}

\* The trade statistics a record carries; the model has two kinds of record
TradeStat(shape) ==
    IF shape = 1
    THEN [pr_open |-> 15, pr_high |-> 20, pr_low |-> 10, pr_close |-> 16,
          vol |-> 3, trades |-> 3, trades_b |-> 1, trades_s |-> 2,
          vol_b |-> 2, vol_s |-> 1]
    ELSE [pr_open |-> 14, pr_high |-> 21, pr_low |-> 9, pr_close |-> 17,
          vol |-> 5, trades |-> 4, trades_b |-> 3, trades_s |-> 1,
          vol_b |-> 1, vol_s |-> 4]

\* A normalised input record: ticker, begin, end and the statistics
Item(ticker, slot, shape) == [ticker |-> ticker, slot |-> slot, shape |-> shape]

\* An accumulated record: item['offset'] = (begin - self._begin).total_seconds()
Accumulated(slot, shape, begin) ==
    [slot |-> slot, offset |-> (slot - begin) * SlotSeconds,
     stat |-> TradeStat(shape)]

\* save_(sum, items, name)
RECURSIVE SaveSum(_, _)
SaveSum(items, name) ==
    IF items = <<>> THEN 0
    ELSE items[1].stat[name] + SaveSum(Tail(items), name)

\* result[name] = save_(sum, items, name) for the summed integer fields
WindowSum(items, name) == SaveSum(items, name)

\* The loop of _tradestats_calculator over items[0..n-1]: open, high, low and
\* close of `result`
RECURSIVE Extremes(_, _)
Extremes(items, n) ==
    LET t == items[n]
    IN  IF n = 1
        THEN [pr_open |-> t.stat.pr_open, pr_high |-> t.stat.pr_high,
              pr_low |-> t.stat.pr_low, pr_close |-> t.stat.pr_close]
        ELSE LET prev == Extremes(items, n - 1)
             IN  [pr_open  |-> prev.pr_open,
                  pr_high  |-> IF t.stat.pr_high > prev.pr_high
                               THEN t.stat.pr_high ELSE prev.pr_high,
                  pr_low   |-> IF t.stat.pr_low < prev.pr_low
                               THEN t.offset + t.stat.pr_low ELSE prev.pr_low,
                  pr_close |-> t.stat.pr_close]

\* _tradestats_calculator(items, lotsize, decimals), as far as the prices and
\* the summed integer fields go
tradestats_calculator(items) ==
    LET e == Extremes(items, Len(items))
    IN  [pr_open |-> e.pr_open, pr_high |-> e.pr_high, pr_low |-> e.pr_low,
         pr_close |-> e.pr_close,
         flows |-> [name \in FlowFields |-> WindowSum(items, name)]]

\* A Resampler object: the current window [begin, begin + period] and the
\* records accumulated in it
ResamplerObject(begin, accum) == [live |-> TRUE, begin |-> begin, accum |-> accum]
NoResampler == [live |-> FALSE, begin |-> 0, accum |-> <<>>]

\* Mutation: the end of the record is not compared with the window
InWindowFromBegin(begin, period, slot) == begin <= slot

\* self._begin <= begin and end <= self._end
InWindow(begin, period, slot) == begin <= slot /\ slot + 1 <= begin + period

\* the window the loop of __call__ stops at
RECURSIVE WindowOf(_, _, _)
WindowOf(begin, period, slot) ==
    IF InWindow(begin, period, slot) THEN begin
    ELSE WindowOf(begin + period, period, slot)

\* Resampler._intervals_gen(from_date, period): the first window starts at
\* midnight of the date of the record
FirstWindow(slot) == (slot \div DaySlots) * DaySlots

\* Resampler._get_result() of a resampler with accumulated records
WindowRecord(ticker, begin, period, accum) ==
    [ticker |-> ticker, begin |-> begin, end |-> begin + period,
     stat |-> tradestats_calculator(accum)]

\* if self._accum: ... in _get_result
HasResult(r) == r.live /\ r.accum # <<>>

\* The results of the closing loop of Resampler.it over the resamplers
RECURSIVE Remaining(_, _, _)
Remaining(order, rs, period) ==
    IF order = <<>> THEN <<>>
    ELSE (IF HasResult(rs[Head(order)])
          THEN <<WindowRecord(Head(order), rs[Head(order)].begin, period,
                              rs[Head(order)].accum)>>
          ELSE <<>>)
         \o Remaining(Tail(order), rs, period)

-----------------------------------------------------------------------------
(* next.engines._common.fetch_section (features.common.fetch_section has the
   same loop) *)

\* The generator object: where it stands, its arguments, the cursor, the rows
\* of the current page not yet yielded, the records yielded and the number
\* of get_objects calls made
FetchState(pc, offset, limit, start, page, out, calls) ==
    [pc |-> pc, offset |-> offset, limit |-> limit, start |-> start,
     page |-> page, out |-> out, calls |-> calls]
NoFetch == FetchState("none", 0, 0, 0, <<>>, <<>>, 0)

\* if (start - offset) < limit and limit > 0: continue
FetchMore(start, offset, limit) == (start - offset) < limit /\ limit > 0

\* fetch_section(..., limit=limit, offset=offset): the generator is created,
\* nothing of its body runs yet
FetchSection(offset, limit) ==
    /\ fetch.pc = "none"
    /\ fetch' = FetchState("created", offset, limit, offset, <<>>, <<>>, 0)
    /\ UNCHANGED <<pageVars, throttleVars, clients, respVars, dateVars, olVars,
                   wireVars, marketVars, resolveVars, opVars, resampleVars, lateVars>>

\* next() on the generator: the body runs to its next yield or to its end.
\* `ok` tells whether the get_objects call it may make is answered.
FetchNext(ok) ==
    LET start == IF fetch.pc = "yielded" THEN fetch.start + 1 ELSE fetch.start
        data  == Page(start)
    IN  /\ fetch.pc \in {"created", "yielded"}
        /\ IF fetch.page # <<>>
           THEN /\ fetch' = [fetch EXCEPT !.start = start,
                                          !.page = Tail(fetch.page),
                                          !.out = Append(fetch.out,
                                                         Head(fetch.page))]
                /\ UNCHANGED throttleVars
           ELSE IF /\ fetch.pc = "yielded"
                   /\ ~FetchMore(start, fetch.offset, fetch.limit)
           THEN /\ fetch' = [fetch EXCEPT !.pc = "done", !.start = start]
                /\ UNCHANGED throttleVars
           ELSE /\ Throttle(FALSE, TRUE)
                /\ fetch' =
                       IF ~ok
                       THEN [fetch EXCEPT !.pc = "raised", !.start = start,
                                          !.calls = fetch.calls + 1]
                       ELSE IF data = <<>>
                       THEN [fetch EXCEPT !.pc = "done", !.start = start,
                                          !.calls = fetch.calls + 1]
                       ELSE [fetch EXCEPT !.pc = "yielded", !.start = start,
                                          !.page = Tail(data),
                                          !.out = Append(fetch.out, Head(data)),
                                          !.calls = fetch.calls + 1]
        /\ UNCHANGED <<pageVars, clients, respVars, dateVars, olVars,
                       wireVars, marketVars, resolveVars, opVars, resampleVars, lateVars>>

-----------------------------------------------------------------------------
(* candles.prepare_request *)

\* candles.normalize_period for a period that is None or an int: the value
\* of the CandlePeriod member, None standing for TEN_MINUTES
candles_normalize_period(period) ==
    IF ~period.given THEN [ok |-> TRUE, exc |-> None, val |-> 10]
    ELSE IF period.val \in {1, 10, 60, 24, 7, 31}
    THEN [ok |-> TRUE, exc |-> None, val |-> period.val]
    ELSE [ok |-> FALSE, exc |-> "ValueError", val |-> 0]

\* The query options of the candles request
CandleOptions(from, till, interval, reverse) ==
    [from |-> from, till |-> till, interval |-> interval, reverse |-> reverse]
NoOptions == CandleOptions(<<>>, <<>>, 0, FALSE)

\* Mutation: the limit of the caller is kept
LatestLimitKept(latest, limit) == limit

\* if latest: ...; limit = 1
LatestLimit(latest, limit) == IF latest THEN 1 ELSE limit

\* What a prepare_request call did: the exception it raised, or the options,
\* offset and limit it handed to data_gen; `asked` is the limit of the caller
CandleRequest(kind, exc, options, offset, limit, latest, asked) ==
    [kind |-> kind, exc |-> exc, options |-> options, offset |-> offset,
     limit |-> limit, latest |-> latest, asked |-> asked]
NoCandleRequest == CandleRequest("none", None, NoOptions, 0, 0, FALSE, NoInt)
CandleRaised(exc, latest, asked) ==
    CandleRequest("raise", exc, NoOptions, 0, 0, latest, asked)

\* prepare_request(cs, path, boardid, secid, from_date=, till_date=, period=,
\*                 offset=, limit=, latest=) up to the data_gen call
prepare_request(from, till, today, period, offset, limit, latest) ==
    LET interval == candles_normalize_period(period)
        dates    == prepare_from_till_dates(from, till, today)
        ol       == calc_offset_limit(offset, limit)
    IN  IF ~interval.ok THEN CandleRaised(interval.exc, latest, limit)
        ELSE IF dates.kind = "raise" THEN CandleRaised(dates.exc, latest, limit)
        ELSE CandleRequest("return", None,
                 CandleOptions(dates.val[1], dates.val[2], interval.val, latest),
                 ol.offset.val, LatestLimit(latest, ol.limit.val), latest, limit)

\* One prepare_request call for run r: the generator of data_gen is created
\* unless the preparation raises
PrepareRequest(r, from, till, today, period, offset, limit, latest) ==
    LET req == prepare_request(from, till, today, period, offset, limit, latest)
    IN  /\ gen[r].pc = "none"
        /\ candleReq[r].kind = "none"
        /\ candleReq' = [candleReq EXCEPT ![r] = req]
        /\ gen' = IF req.kind = "return"
                  THEN [gen EXCEPT ![r] = [NoGen EXCEPT !.pc = "created",
                                                        !.offset = req.offset,
                                                        !.limit = req.limit]]
                  ELSE gen
        /\ UNCHANGED <<srcN, srcP, srcMode, throttleVars, clients, respVars,
                       dateVars, olVars, wireVars, marketVars, resolveVars,
                       opVars, resampleVars, fetchVars, thr, win, stomp>>

-----------------------------------------------------------------------------
(* Client.get_objects entered by several threads *)

Threads == {"t1", "t2"}

\* A thread in get_objects of an unauthorized blocking client: "idle" before
\* the call, "read" once `timeout` is computed from the watermark, "sent"
\* once the watermark is written and the sleep is behind it.  readAt and
\* writeAt number the accesses of the watermark in the order they happen;
\* `at` is the time the request goes out.
ThreadState(pc, timeout, readAt, writeAt, at) ==
    [pc |-> pc, timeout |-> timeout, readAt |-> readAt, writeAt |-> writeAt,
     at |-> at]
NoThread == ThreadState("idle", 0, 0, 0, 0)

\* The accesses of the watermark made so far
Accesses ==
    Cardinality({t \in Threads : thr[t].pc # "idle"})
        + Cardinality({t \in Threads : thr[t].pc = "sent"})

\* Mutation: the delay the thread waits is left out of the watermark
WatermarkAfterNoWait(t, timeout) == t + REQUEST_TIMEOUT

\* _NEXT_REQUEST_AT = time() + _REQUEST_TIMEOUT + timeout, with the timeout
\* the thread computed earlier
WatermarkAfter(t, timeout) == t + REQUEST_TIMEOUT + timeout

\* timeout = _NEXT_REQUEST_AT - time(); if self.authorized or timeout <= 0: ...
ThreadRead(t) ==
    /\ thr[t].pc = "idle"
    /\ thr' = [thr EXCEPT ![t] =
                  ThreadState("read", Timeout(FALSE, NEXT_REQUEST_AT, now),
                              Accesses + 1, 0, 0)]
    /\ UNCHANGED <<pageVars, throttleVars, clients, respVars, dateVars, olVars,
                   wireVars, marketVars, resolveVars, opVars, resampleVars,
                   fetchVars, candleReq, win, stomp>>

\* _NEXT_REQUEST_AT = ...; sleep(timeout); the request goes out
ThreadWrite(t) ==
    /\ thr[t].pc = "read"
    /\ NEXT_REQUEST_AT' = WatermarkAfter(now, thr[t].timeout)
    /\ thr' = [thr EXCEPT ![t] =
                  ThreadState("sent", thr[t].timeout, thr[t].readAt,
                              Accesses + 1, now + thr[t].timeout)]
    /\ UNCHANGED <<pageVars, now, sends, clients, respVars, dateVars, olVars,
                   wireVars, marketVars, resolveVars, opVars, resampleVars,
                   fetchVars, candleReq, win, stomp>>

\* Time passes, between the calls and inside them
ThreadTick ==
    /\ now < MaxThreadTicks * TickMs
    /\ now' = now + TickMs
    /\ UNCHANGED <<pageVars, NEXT_REQUEST_AT, sends, clients, respVars,
                   dateVars, olVars, extVars>>

-----------------------------------------------------------------------------
(* tools.resample.resample, one window at a time *)

\* Time is counted in minutes from midnight of the first day of the year; a
\* record lasts five minutes; a period is a number of minutes.
DayMinutes  == 1440     \* minutes in a day
YearMinutes == 525600   \* minutes in the year of date.today()

SymMin == <<109, 105, 110>>
SymH   == <<104>>
SymD   == <<100>>
SymW   == <<119>>
SymM   == <<109>>

\* [0-9]+ and [a-zA-Z]+ : the length of the longest prefix of digits, of
\* letters
RECURSIVE DigitsLen(_)
DigitsLen(s) ==
    IF s # <<>> /\ IsDigit(Head(s)) THEN 1 + DigitsLen(Tail(s)) ELSE 0
RECURSIVE LettersLen(_)
LettersLen(s) ==
    IF s # <<>> /\ IsLetter(Head(s)) THEN 1 + LettersLen(Tail(s)) ELSE 0

\* re.match("([0-9]+)([a-zA-Z]+)", period) with period == found.group()
PeriodMatch(s) ==
    LET nd == DigitsLen(s)
        nl == LettersLen(SubSeq(s, nd + 1, Len(s)))
    IN  IF nd > 0 /\ nl > 0 /\ nd + nl = Len(s)
        THEN [ok |-> TRUE, number |-> Num(s, 1, nd),
              symbol |-> SubSeq(s, nd + 1, Len(s))]
        ELSE [ok |-> FALSE, number |-> 0, symbol |-> <<>>]

PeriodOf(minutes) == [ok |-> TRUE, exc |-> None, val |-> minutes]
PeriodRaised(exc) == [ok |-> FALSE, exc |-> exc, val |-> 0]

\* number // 5 == number / 5
IsMultipleOfFive(n) == n % 5 = 0

\* tools.resample.normalize_period(period) for an int or a str
normalize_period(period) ==
    IF period.tag = "int"
    THEN (IF IsMultipleOfFive(period.val) THEN PeriodOf(period.val)
          ELSE PeriodRaised("ValueError"))
    ELSE LET found == PeriodMatch(period.val)
         IN  IF ~found.ok THEN PeriodRaised("ValueError")
             ELSE IF found.symbol = SymMin
             THEN (IF IsMultipleOfFive(found.number) THEN PeriodOf(found.number)
                   ELSE PeriodRaised("ValueError"))
             ELSE IF found.symbol = SymH THEN PeriodOf(found.number * 60)
             ELSE IF found.symbol = SymD THEN PeriodOf(found.number * 60 * 24)
             ELSE IF found.symbol = SymW
             THEN PeriodOf(found.number * 60 * 24 * 7)
             ELSE IF found.symbol = SymM THEN PeriodRaised("NotImplementedError")
             ELSE PeriodRaised("ValueError")

\* One resample(data, period) call over trade statistics of one listed
\* ticker: the period argument, the `begin` of the input records, the number
\* of records consumed, the current window of the Resampler (_begin, _end),
\* the `begin` of the records accumulated in it, and the windows emitted
WindowsState(pc, exc, arg, period, input, taken, live, begin, end, accum, out) ==
    [pc |-> pc, exc |-> exc, arg |-> arg, period |-> period, input |-> input,
     taken |-> taken, live |-> live, begin |-> begin, end |-> end,
     accum |-> accum, out |-> out]
NoWindows ==
    WindowsState("none", None, [tag |-> "int", val |-> 5], 0, <<>>, 0, FALSE,
                 0, 0, <<>>, <<>>)

\* dict(ticker=..., begin=self._begin, end=self._end, ...) of _get_result
Emitted(begin, end) == [begin |-> begin, end |-> end]

\* self._begin <= begin and end <= self._end, for a record of five minutes
InWindowMinutes(wbegin, wend, begin) ==
    wbegin <= begin /\ begin + 5 <= wend

\* Mutation: the first window begins with the first record
MidnightAtRecord(begin) == begin

\* datetime.combine(from_date, time(0))
Midnight(begin) == (begin \div DayMinutes) * DayMinutes

\* while begin.year <= date.today().year: in _intervals_gen
InYear(begin) == begin < YearMinutes

\* resample(data, period) up to the loop of Resampler.it: the period is
\* normalised and the metrics are taken from the first record
ResampleCall ==
    /\ win.pc = "start"
    /\ LET p == normalize_period(win.arg)
       IN  win' = IF ~p.ok THEN [win EXCEPT !.pc = "raised", !.exc = p.exc]
                  ELSE IF win.input = <<>>
                  THEN [win EXCEPT !.pc = "raised", !.period = p.val,
                                   !.exc = "NotImplementedError"]
                  ELSE [win EXCEPT !.pc = "loop", !.period = p.val]
    /\ UNCHANGED <<pageVars, throttleVars, clients, respVars, dateVars, olVars,
                   wireVars, marketVars, resolveVars, opVars, resampleVars,
                   fetchVars, candleReq, thr, stomp>>

\* `for item in data` of Resampler.it takes the next record, creating the
\* Resampler at the first; after the last record the closing loop emits what
\* is accumulated
TakeItem ==
    /\ win.pc = "loop"
    /\ win' =
         IF win.taken = Len(win.input)
         THEN [win EXCEPT !.pc = "done", !.accum = <<>>,
                          !.out = IF win.accum # <<>>
                                  THEN Append(win.out,
                                              Emitted(win.begin, win.end))
                                  ELSE win.out]
         ELSE IF win.live
         THEN [win EXCEPT !.pc = "search"]
         ELSE IF InYear(Midnight(win.input[1]))
         THEN [win EXCEPT !.pc = "search", !.live = TRUE,
                          !.begin = Midnight(win.input[1]),
                          !.end = Midnight(win.input[1]) + win.period]
         ELSE [win EXCEPT !.pc = "raised", !.exc = "RuntimeError"]
    /\ UNCHANGED <<pageVars, throttleVars, clients, respVars, dateVars, olVars,
                   wireVars, marketVars, resolveVars, opVars, resampleVars,
                   fetchVars, candleReq, thr, stomp>>

\* One test of the `while` of Resampler.__call__: the record is accumulated
\* when the window holds it; else the result of the window is taken, which
\* empties it, and the window moves on by next(self._intervals)
SearchWindow ==
    /\ win.pc = "search"
    /\ LET begin == win.input[win.taken + 1]
       IN  win' =
             IF InWindowMinutes(win.begin, win.end, begin)
             THEN [win EXCEPT !.pc = "loop", !.taken = win.taken + 1,
                              !.accum = Append(win.accum, begin)]
             ELSE IF InYear(win.end)
             THEN [win EXCEPT !.begin = win.end,
                              !.end = win.end + win.period,
                              !.accum = <<>>,
                              !.out = IF win.accum # <<>>
                                      THEN Append(win.out,
                                                  Emitted(win.begin, win.end))
                                      ELSE win.out]
             ELSE [win EXCEPT !.pc = "raised", !.exc = "RuntimeError"]
    /\ UNCHANGED <<pageVars, throttleVars, clients, respVars, dateVars, olVars,
                   wireVars, marketVars, resolveVars, opVars, resampleVars,
                   fetchVars, candleReq, thr, stomp>>

-----------------------------------------------------------------------------
(* beta.issplus.ISSPlusSTOMP *)

\* The ids uuid4 hands out: to subscribe calls and to request calls
SubIds == {"s1", "s2"}
FutIds == {"r1"}

\* The state of one connection.
\*   pending   self._pending, a dict: its items <<id, kind>> in insertion order
\*   queue     Subscription._queue of every subscription
\*   iter      the `async for` over every subscription: "none" before
\*             subscribe, "iterating", "ended" by StopAsyncIteration, "failed"
\*             by a raised error
\*   fut       the future of every request: "none", "waiting", "result",
\*             "error", "cancelled"
\*   served    the ids the server still sends frames for
\*   inflight  the frames sent by the server and not yet read by the listener
\*   frames    the number of frames the server has sent
\*   listener  the listener task: "running" or "ended"
\*   unsub     the unsubscribe(id) call of the application: "none",
\*             "sending" while it awaits the send, "done", "raised"
\*   close     the close() call: "none", "loop" at the test of its while,
\*             "unsub" while the unsubscribe it called awaits the send,
\*             "closed", "raised"
\*   closeId   the id close() is unsubscribing
\*   ws        the websocket is open
\*   asserts   the interpreter executes assert statements (no -O)
PendingItem(id, kind) == [id |-> id, kind |-> kind]
Frame(cmd, id) == [cmd |-> cmd, id |-> id]

NoStomp ==
    [pending |-> <<>>, queue |-> [i \in SubIds |-> <<>>],
     iter |-> [i \in SubIds |-> "none"], fut |-> [i \in FutIds |-> "none"],
     served |-> {}, inflight |-> <<>>, frames |-> 0, listener |-> "running",
     unsub |-> [i \in SubIds |-> "none"], close |-> "none", closeId |-> None,
     ws |-> TRUE, asserts |-> TRUE]

PendingIds(p) == {p[i].id : i \in 1..Len(p)}

\* self._pending.pop(id, None)
PopPending(p, id) == SelectSeq(p, LAMBDA e : e.id # id)

\* The tasks of the event loop run only while close() is not between two
\* awaits: its while loop has no await but the send of unsubscribe and the
\* final close of the websocket
LoopFree == stomp.close # "loop"

StompOthers ==
    <<pageVars, throttleVars, clients, respVars, dateVars, olVars, wireVars,
      marketVars, resolveVars, opVars, resampleVars, fetchVars, candleReq,
      thr, win>>

\* subscription = await client.subscribe(...); async for data in subscription
Subscribe(id) ==
    /\ LoopFree /\ stomp.close = "none"
    /\ stomp.iter[id] = "none"
    /\ stomp' = [stomp EXCEPT !.pending = Append(stomp.pending, PendingItem(id, "sub")),
                              !.iter[id] = "iterating",
                              !.served = stomp.served \cup {id}]
    /\ UNCHANGED StompOthers

\* await client.request(...): the frame is sent and the future is pending
Request(id) ==
    /\ LoopFree /\ stomp.close = "none"
    /\ stomp.fut[id] = "none"
    /\ stomp' = [stomp EXCEPT !.pending = Append(stomp.pending, PendingItem(id, "fut")),
                              !.fut[id] = "waiting",
                              !.served = stomp.served \cup {id}]
    /\ UNCHANGED StompOthers

\* The server sends a frame for an id it serves: MESSAGE, RECEIPT (without
\* data) or ERROR; a request is answered once, an ERROR is the last frame
ServerSend(id, cmd) ==
    /\ stomp.ws
    /\ id \in stomp.served
    /\ stomp.frames < MaxFrames
    /\ id \in FutIds => cmd # "RECEIPT"
    /\ stomp' = [stomp EXCEPT !.inflight = Append(stomp.inflight, Frame(cmd, id)),
                              !.frames = stomp.frames + 1,
                              !.served = IF id \in FutIds \/ cmd = "ERROR"
                                         THEN stomp.served \ {id}
                                         ELSE stomp.served]
    /\ UNCHANGED StompOthers

\* assert False, "Cannot found pending for ...": AssertionError ends the
\* listener through `except Exception`
UnknownIdEnds(asserts) == asserts

\* One pass of `async for message in self._wscp` in _listener
Listen ==
    /\ LoopFree
    /\ stomp.ws /\ stomp.listener = "running"
    /\ stomp.inflight # <<>>
    /\ LET frame == Head(stomp.inflight)
           id    == frame.id
           s     == [stomp EXCEPT !.inflight = Tail(stomp.inflight)]
       IN  stomp' =
             IF id \notin PendingIds(stomp.pending)
             THEN (IF UnknownIdEnds(stomp.asserts)
                   THEN [s EXCEPT !.listener = "ended"] ELSE s)
             ELSE IF id \in FutIds
             THEN (IF stomp.fut[id] = "cancelled"
                   THEN [s EXCEPT !.pending = PopPending(stomp.pending, id),
                                  !.listener = "ended"]
                   ELSE [s EXCEPT !.pending = PopPending(stomp.pending, id),
                                  !.fut[id] = IF frame.cmd = "ERROR"
                                              THEN "error" ELSE "result"])
             ELSE IF frame.cmd = "ERROR"
             THEN [s EXCEPT !.queue[id] = Append(stomp.queue[id], "error"),
                            !.pending = PopPending(stomp.pending, id)]
             ELSE IF frame.cmd = "MESSAGE"
             THEN [s EXCEPT !.queue[id] = Append(stomp.queue[id], "data")]
             ELSE s
    /\ UNCHANGED StompOthers

\* Subscription.__anext__ of the consumer of subscription id
Consume(id) ==
    /\ LoopFree
    /\ stomp.iter[id] = "iterating"
    /\ stomp.queue[id] # <<>>
    /\ stomp' = [stomp EXCEPT
                    !.queue[id] = Tail(stomp.queue[id]),
                    !.iter[id] = IF Head(stomp.queue[id]) = "stop" THEN "ended"
                                 ELSE IF Head(stomp.queue[id]) = "error"
                                 THEN "failed" ELSE "iterating"]
    /\ UNCHANGED StompOthers

\* client.unsubscribe(id) of the application, up to the await of the send
UnsubscribeSend(id) ==
    /\ LoopFree /\ stomp.ws
    /\ stomp.iter[id] # "none"
    /\ stomp.unsub[id] = "none"
    /\ stomp' = [stomp EXCEPT !.unsub[id] = "sending",
                              !.served = stomp.served \ {id}]
    /\ UNCHANGED StompOthers

\* subscription = self._pending.pop(id, None);
\* subscription._append(StopAsyncIteration()): AttributeError when the id is
\* not pending any more
UnsubscribePop(id) ==
    /\ LoopFree
    /\ stomp.unsub[id] = "sending"
    /\ stomp' =
         IF id \in PendingIds(stomp.pending)
         THEN [stomp EXCEPT !.unsub[id] = "done",
                            !.pending = PopPending(stomp.pending, id),
                            !.queue[id] = Append(stomp.queue[id], "stop")]
         ELSE [stomp EXCEPT !.unsub[id] = "raised"]
    /\ UNCHANGED StompOthers

\* await client.close(): self._wscp is not None
Close ==
    /\ stomp.close = "none"
    /\ stomp.ws
    /\ stomp' = [stomp EXCEPT !.close = "loop"]
    /\ UNCHANGED StompOthers

\* One pass of `while self._pending` in close(): the first item of the dict
\* is unsubscribed when it is a Subscription and cancelled when it is a
\* Future; with nothing pending the websocket is closed
CloseStep ==
    /\ stomp.close = "loop"
    /\ stomp' =
         IF stomp.pending = <<>>
         THEN [stomp EXCEPT !.close = "closed", !.ws = FALSE,
                            !.listener = "ended"]
         ELSE LET item == Head(stomp.pending)
              IN  IF item.kind = "sub"
                  THEN [stomp EXCEPT !.close = "unsub", !.closeId = item.id,
                                     !.served = stomp.served \ {item.id}]
                  ELSE [stomp EXCEPT !.fut[item.id] = "cancelled"]
    /\ UNCHANGED StompOthers

\* The unsubscribe called by close() resumes after its send
CloseUnsubscribed ==
    /\ stomp.close = "unsub"
    /\ LET id == stomp.closeId
       IN  stomp' =
             IF id \in PendingIds(stomp.pending)
             THEN [stomp EXCEPT !.close = "loop", !.closeId = None,
                                !.pending = PopPending(stomp.pending, id),
                                !.queue[id] = Append(stomp.queue[id], "stop")]
             ELSE [stomp EXCEPT !.close = "raised", !.closeId = None]
    /\ UNCHANGED StompOthers

-----------------------------------------------------------------------------
(* The parts of the state a specification leaves alone *)

IdlePages ==
    /\ srcN = 0
    /\ srcP = 1
    /\ srcMode = "paged"
    /\ gen = [r \in Runs |-> NoGen]

IdleClients ==
    clients = [c \in Clients |-> [sync |-> TRUE, authorized |-> FALSE]]

IdleThrottle ==
    /\ now = 0
    /\ NEXT_REQUEST_AT = 0
    /\ sends = <<>>
    /\ IdleClients

IdleResponse ==
    /\ resp = NoResponse
    /\ parsed = Pending

IdleDates ==
    /\ dateArgs = <<NoArg, NoArg, NoDate>>
    /\ dateRes = NoResult

IdleOffsetLimit ==
    /\ olArgs = <<NoInt, NoInt>>
    /\ olRes = NoPair

IdleWire ==
    /\ wire = NoBlock
    /\ wireRes = WirePending

IdleMarket ==
    /\ AVAILABLE = {}
    /\ constructions = <<>>

IdleResolve ==
    /\ rsArgs = <<<<>>, NoBoard, <<>>>>
    /\ rsRes = ResolvePending

IdleOperations ==
    /\ lastOp = NoOperation
    /\ opCount = 0
    /\ draining = 0

IdleResample ==
    /\ resPeriod = 1
    /\ resInput = <<>>
    /\ resamplers = <<>>
    /\ resOrder = <<>>
    /\ resOut = <<>>
    /\ resDone = FALSE

IdleFetch == fetch = NoFetch

IdleCandles == candleReq = [r \in Runs |-> NoCandleRequest]

IdleThreads == thr = [t \in Threads |-> NoThread]

IdleWindows == win = NoWindows

IdleStomp == stomp = NoStomp

IdleLate ==
    /\ IdleCandles
    /\ IdleThreads
    /\ IdleWindows
    /\ IdleStomp

IdleExt ==
    /\ IdleLate
    /\ IdleFetch
    /\ IdleResample
    /\ IdleWire
    /\ IdleMarket
    /\ IdleResolve
    /\ IdleOperations

-----------------------------------------------------------------------------
(* Spec: two data_gen runs against one source *)

Limits  == {-1} \cup (1..MaxLimit)
Offsets == 0..MaxOffset

Init ==
    /\ srcN \in 0..MaxN
    /\ srcP \in 1..MaxP
    /\ srcMode \in {"paged", "stuck"}
    /\ gen = [r \in Runs |-> NoGen]
    /\ IdleThrottle
    /\ IdleResponse
    /\ IdleDates
    /\ IdleOffsetLimit
    /\ IdleExt

Next ==
    \/ \E r \in Runs, off \in Offsets, lim \in Limits : Invoke(r, off, lim)
    \/ \E r \in Runs : NextRecord(r)
    \/ \E r \in Runs : Abandon(r)
    \/ Tick

Spec == Init /\ [][Next]_vars

\* C1 as stated: offset 0 and limit -1 against a paged source of N records
\* yields all N records in source order.
SourceSlice(off, n) == [i \in 1..n |-> off + i - 1]

C2_RespectsLimit ==
    \A r \in Runs :
        (srcMode = "paged" /\ gen[r].pc = "done" /\ gen[r].limit > 0)
        => gen[r].out = SourceSlice(gen[r].offset,
                            Min(gen[r].limit, Max(srcN - gen[r].offset, 0)))

\* The limit cuts a page in the middle, after a full page, at an offset
C2_Witness ==
    \E r \in Runs :
        /\ srcMode = "paged" /\ gen[r].pc = "done"
        /\ gen[r].offset > 0
        /\ gen[r].limit > 0 /\ gen[r].limit % srcP # 0
        /\ srcN - gen[r].offset > gen[r].limit
        /\ Len(gen[r].out) = gen[r].limit
        /\ Len(gen[r].starts) = 1

\* C3: a run issues at most max(limit, 1) transport calls and yields at
\* most limit records (one page when limit is -1), whatever the source
\* answers: it is about to fetch only while it is below that number.
MaxCalls(lim) == IF lim < 0 THEN 1 ELSE lim

C3_BoundedCalls ==
    \A r \in Runs :
        gen[r].pc \in {"created", "suspended", "done", "error", "closed"} =>
            /\ Len(gen[r].starts) <= MaxCalls(gen[r].limit)
            /\ (gen[r].limit > 0 => Len(gen[r].out) <= gen[r].limit)
            /\ (gen[r].limit < 0 => Len(gen[r].out) <= Len(gen[r].metrics))
            /\ (gen[r].pc \in {"created", "suspended"}
                  /\ Resume(gen[r]).pc = "fetch"
                => Len(gen[r].starts) < MaxCalls(gen[r].limit))

\* Against a source that never answers with an empty page, a run with limit
\* -1 and a run with a limit of several pages have both come to an end
C3_Witness ==
    /\ srcMode = "stuck" /\ srcN > 0
    /\ \E r \in Runs :
          gen[r].pc = "done" /\ gen[r].limit = -1 /\ Len(gen[r].starts) = 1
    /\ \E r \in Runs :
          /\ gen[r].pc = "done" /\ gen[r].limit > srcP
          /\ Len(gen[r].starts) > 1
          /\ Len(gen[r].out) = gen[r].limit

\* C4: a successful response whose section has no rows ends the run without
\* an error, whatever the limit; when it is the first page the run ends with
\* no record after exactly one transport call.
GoodResponse(r) ==
    IsSuccess(r.status) /\ StartsWithJson(r.ctype) /\ r.body = "doc"

C4_EmptyPageEnds ==
    \A r \in Runs :
        (gen[r].starts # <<>> /\ GoodResponse(gen[r].last)
            /\ Page(gen[r].starts[Len(gen[r].starts)]) = <<>>)
        => /\ gen[r].pc = "done"
           /\ gen[r].err.kind # "raise"
           /\ (Len(gen[r].starts) = 1 => gen[r].out = <<>>)

\* Both shapes: an empty first page, and an empty page after records
C4_Witness ==
    /\ srcMode = "paged"
    /\ \E r \in Runs :
          /\ gen[r].pc = "done" /\ gen[r].out = <<>>
          /\ Len(gen[r].starts) = 1 /\ GoodResponse(gen[r].last)
    /\ \E r \in Runs :
          /\ gen[r].pc = "done" /\ gen[r].limit > Len(gen[r].out)
          /\ Len(gen[r].out) > 0
          /\ Len(gen[r].starts) > 1 /\ GoodResponse(gen[r].last)

\* C6: a failed transport call ends the run with that error in the step
\* that issued the call: nothing is yielded in that step or later, no call
\* follows it, and no cursor value is ever requested twice.
NoDuplicates(q) == \A i, j \in 1..Len(q) : i # j => q[i] # q[j]

C6_NoRetry ==
    [][\A r \in Runs :
          /\ gen[r].pc = "error" => gen'[r] = gen[r]
          /\ (gen[r].pc # "error" /\ gen'[r].pc = "error")
                => /\ gen'[r].out = gen[r].out
                   /\ Len(gen'[r].starts) = Len(gen[r].starts) + 1
                   /\ gen'[r].err.kind = "raise"
          /\ (~GoodResponse(gen'[r].last) /\ gen'[r].starts # <<>>)
                => gen'[r].pc = "error"
          /\ NoDuplicates(gen'[r].starts)]_vars

\* A page fails after records of an earlier page were yielded
C6_Witness ==
    \E r \in Runs :
        /\ gen[r].pc = "error"
        /\ gen[r].err.exc = "HTTPStatusError" /\ gen[r].err.status = 500
        /\ Len(gen[r].starts) > 1
        /\ Len(gen[r].out) > 0

-----------------------------------------------------------------------------
(* SpecThrottle: clients of both modes calling get_objects *)

InitThrottle ==
    /\ IdlePages
    /\ now = 0
    /\ NEXT_REQUEST_AT = 0
    /\ sends = <<>>
    /\ clients \in [Clients -> [sync : BOOLEAN, authorized : {FALSE}]]
    /\ IdleResponse
    /\ IdleDates
    /\ IdleOffsetLimit
    /\ IdleExt

NextThrottle ==
    \/ \E c \in Clients : Call(c)
    \/ \E c \in Clients, ok \in BOOLEAN : Authorize(c, ok)
    \/ TickClock

SpecThrottle == InitThrottle /\ [][NextThrottle]_vars

\* C5: while only unauthorized clients have called get_objects, any two
\* requests of the process go out at least _REQUEST_TIMEOUT apart.
AllUnauthorized == \A i \in 1..Len(sends) : ~sends[i].auth

C5_MinSpacing ==
    AllUnauthorized =>
        \A i, j \in 1..Len(sends) :
            i < j => sends[j].at - sends[i].at >= REQUEST_TIMEOUT

\* Three unauthorized requests, one of a cooperative client, two of them
\* exactly the minimum spacing apart and two further apart
C5_Witness ==
    /\ Len(sends) >= 3
    /\ AllUnauthorized
    /\ \E c \in Clients : ~clients[c].sync
    /\ \E i \in 1..(Len(sends) - 1) : sends[i + 1].at - sends[i].at = REQUEST_TIMEOUT
    /\ \E i \in 1..(Len(sends) - 1) : sends[i + 1].at - sends[i].at > REQUEST_TIMEOUT

-----------------------------------------------------------------------------
(* SpecResponse: _parse_response over the responses of the transport *)

InitResponse ==
    /\ IdlePages
    /\ IdleThrottle
    /\ resp \in HttpResponses
    /\ parsed = Pending
    /\ IdleDates
    /\ IdleOffsetLimit
    /\ IdleExt

\* _parse_response(resp) for a section of zero or more rows
Classify ==
    /\ parsed = Pending
    /\ \E rows \in {<<>>, <<0>>, <<0, 1>>} : parsed' = ParseResponse(resp, rows)
    /\ UNCHANGED <<pageVars, throttleVars, clients, resp, dateVars, olVars, extVars>>

NextResponse == Classify

SpecResponse == InitResponse /\ [][NextResponse]_vars

\* C7: non-success status -> HTTP status error with that status; success
\* and a content type that does not start with application/json -> HTTP
\* status error 403; success, JSON, body empty or unparsable -> ValueError;
\* otherwise the deserializer's result; the deserializer runs only then.
C7_Classification ==
    parsed # Pending =>
        IF ~IsSuccess(resp.status)
        THEN parsed = Raised("HTTPStatusError", resp.status, FALSE)
        ELSE IF resp.ctype \notin {"application/json",
                                   "application/json; charset=utf-8"}
        THEN parsed = Raised("HTTPStatusError", 403, FALSE)
        ELSE IF resp.body \in {"empty", "invalid"}
        THEN parsed = Raised("ValueError", 0, FALSE)
        ELSE parsed.deser /\ (parsed.kind = "return" \/ parsed.exc = "KeyError")

-----------------------------------------------------------------------------
(* SpecDates: prepare_from_till_dates over dates, strings and None *)

\* The ISO 8601 calendar date YYYY-MM-DD of a date, as character codes
TwoDigits(n)  == <<48 + (n \div 10), 48 + (n % 10)>>
IsoStr(d) ==
    TwoDigits(d[1] \div 100) \o TwoDigits(d[1] % 100) \o <<45>>
        \o TwoDigits(d[2]) \o <<45>> \o TwoDigits(d[3])

DateValues ==
    { <<2023, 12, 31>>, <<2024, 2, 29>>, <<2024, 4, 22>>, <<2024, 4, 23>>,
      <<2024, 12, 1>> }

IsoStrings == { IsoStr(d) : d \in DateValues }

FromArgs ==
    {NoArg} \cup { DateArg(d) : d \in DateValues }
            \cup { StrArg(x) : x \in IsoStrings \cup {TodayStr} }
TillArgs ==
    {NoArg} \cup { DateArg(d) : d \in DateValues }
            \cup { StrArg(x) : x \in IsoStrings \cup {TodayStr, <<>>} }

InitDates ==
    /\ IdlePages
    /\ IdleThrottle
    /\ IdleResponse
    /\ dateArgs \in FromArgs \X TillArgs \X {<<2024, 4, 22>>, <<2024, 12, 1>>}
    /\ dateRes = NoResult
    /\ IdleOffsetLimit
    /\ IdleExt

PrepareDates ==
    /\ dateRes = NoResult
    /\ dateRes' = prepare_from_till_dates(dateArgs[1], dateArgs[2], dateArgs[3])
    /\ UNCHANGED <<pageVars, throttleVars, clients, respVars, dateArgs, olVars, extVars>>

NextDates == PrepareDates

SpecDates == InitDates /\ [][NextDates]_vars

\* The date an argument denotes, when it is a date or an ISO string
IsDateOrIso(a) == a.tag = "date" \/ (a.tag = "str" /\ a.val \in IsoStrings)
Denoted(a) ==
    IF a.tag = "date" THEN a.val
    ELSE CHOOSE d \in DateValues : IsoStr(d) = a.val

\* The date, compared as the calendar orders it: by days since 0001-01-01
DaysBefore(y, m) ==
    LET RECURSIVE sum(_)
        sum(k) == IF k >= m THEN 0 ELSE DaysIn(y, k) + sum(k + 1)
    IN  sum(1)
Ordinal(d) ==
    LET y == d[1] - 1
    IN  y * 365 + (y \div 4) - (y \div 100) + (y \div 400)
        + DaysBefore(d[1], d[2]) + d[3]

\* C8: for dates given as ISO strings or date values, from <= till returns
\* the same two dates as ISO strings, from > till raises ISSDateParamException.
C8_DatesInOrder ==
    (dateRes # NoResult /\ IsDateOrIso(dateArgs[1]) /\ IsDateOrIso(dateArgs[2])) =>
        IF Ordinal(Denoted(dateArgs[1])) <= Ordinal(Denoted(dateArgs[2]))
        THEN dateRes = DatesReturn(IsoStr(Denoted(dateArgs[1])),
                                   IsoStr(Denoted(dateArgs[2])))
        ELSE dateRes = DatesRaise("ISSDateParamException")

\* A mixed pair (date, string) of equal dates is returned as two equal strings
C8_Witness ==
    /\ dateRes.kind = "return"
    /\ dateArgs[1].tag = "date" /\ dateArgs[2].tag = "str"
    /\ dateArgs[1].val = <<2024, 2, 29>>
    /\ dateRes.val[1] = dateRes.val[2]

\* C9: the missing-parameter error is raised only when both dates are None,
\* and (from_date, None) returns (from_date, from_date).
C9_TillDefaultsToFrom ==
    dateRes # NoResult =>
        /\ (dateRes = DatesRaise("ISSTickerParamException")
               => dateArgs[1] = NoArg /\ dateArgs[2] = NoArg)
        /\ (IsDateOrIso(dateArgs[1]) /\ dateArgs[2] = NoArg
               => dateRes = DatesReturn(IsoStr(Denoted(dateArgs[1])),
                                        IsoStr(Denoted(dateArgs[1]))))

-----------------------------------------------------------------------------
(* SpecOffsetLimit: calc_offset_limit over absent, small and large values *)

OffsetArgs ==
    {NoInt} \cup { IntArg(n) : n \in {-7, -1, 0, 1, 25, max_limit - 1,
                                      max_limit, max_limit + 1} }
LimitArgs ==
    {NoInt} \cup { IntArg(n) : n \in {-2, -1, 0, 1, 2, standart_limit,
                                      max_limit, max_limit + 1} }

InitOffsetLimit ==
    /\ IdlePages
    /\ IdleThrottle
    /\ IdleResponse
    /\ IdleDates
    /\ olArgs \in OffsetArgs \X LimitArgs
    /\ olRes = NoPair
    /\ IdleExt

CalcOffsetLimit ==
    /\ ~olRes.done
    /\ olRes' = calc_offset_limit(olArgs[1], olArgs[2])
    /\ UNCHANGED <<pageVars, throttleVars, clients, respVars, dateVars, olArgs, extVars>>

NextOffsetLimit == CalcOffsetLimit

SpecOffsetLimit == InitOffsetLimit /\ [][NextOffsetLimit]_vars

\* C10: the returned offset lies in [0, max_limit) for every offset and
\* every limit, the sentinel limit -1 included.
C10_OffsetInRange ==
    olRes.done => olRes.offset.val >= 0 /\ olRes.offset.val < max_limit

-----------------------------------------------------------------------------
(* SpecWire: result_deserializer over one section *)

\* The columns a section may carry, with their declared types
Catalogue ==
    <<"SECID", "NUMTRADES", "TRADEDATE", "VALUE", "SYSTIME", "TRADETIME",
      "VOLUME">>
Metadata ==
    [SECID |-> "string", NUMTRADES |-> "int32", TRADEDATE |-> "date",
     VALUE |-> "double", SYSTIME |-> "datetime", TRADETIME |-> "time",
     VOLUME |-> "int64"]

LeapDayStr == <<50, 48, 50, 52, 45, 48, 50, 45, 50, 57>>
Cells == {NullCell, NumCell(7), TextCell(ZeroDateStr), TextCell(LeapDayStr)}

SeqsUpTo(S, n) == UNION {[1..k -> S] : k \in 0..n}

ColumnLists ==
    {SubSeq(Catalogue, a, Min(a + n - 1, Len(Catalogue))) :
        a \in 1..Len(Catalogue), n \in 1..MaxCols}

InitWire ==
    /\ \E columns \in ColumnLists :
        \E data \in SeqsUpTo(SeqsUpTo(Cells, Len(columns)), MaxRows) :
            wire = Block(Metadata, columns, data)
    /\ wireRes = WirePending
    /\ IdlePages
    /\ IdleThrottle
    /\ IdleResponse
    /\ IdleDates
    /\ IdleOffsetLimit
    /\ IdleMarket
    /\ IdleResolve
    /\ IdleOperations
    /\ IdleResample
    /\ IdleFetch
    /\ IdleLate

Deserialize ==
    /\ wireRes = WirePending
    /\ wireRes' = result_deserializer(wire)
    /\ UNCHANGED <<pageVars, throttleVars, clients, respVars, dateVars, olVars,
                   wire, marketVars,
                   resolveVars, opVars, resampleVars, fetchVars, lateVars>>

NextWire == Deserialize

SpecWire == InitWire /\ [][NextWire]_vars

ShortRows == {k \in 1..Len(wire.data) : Len(wire.data[k]) < Len(wire.columns)}

\* C11: a section holding a data row with fewer cells than `columns` makes
\* result_deserializer raise, and no record it returns lacks the field of a
\* column.
C11_ShortRowIsError ==
    wireRes # WirePending =>
        /\ ShortRows # {} => wireRes.kind = "raise"
        /\ \A i \in 1..Len(wireRes.items) :
               Len(wireRes.items[i]) = Len(wire.columns)

-----------------------------------------------------------------------------
(* SpecMarket: a sequence of Market constructions against one registry *)

OtcSharesPath == <<"engines", "otc", "markets", "shares">>

MarketNames ==
    {<<"EQ">>, <<"shares">>, <<"stocks">>, <<"stock">>, <<"index">>,
     <<"bonds">>, OtcSharesPath, StockPath("bonds")}
MarketBoards == {None, "TQBR", "SNDX"}

InitMarket ==
    /\ AVAILABLE = {}
    /\ constructions = <<>>
    /\ IdlePages
    /\ IdleThrottle
    /\ IdleResponse
    /\ IdleDates
    /\ IdleOffsetLimit
    /\ IdleWire
    /\ IdleResolve
    /\ IdleOperations
    /\ IdleResample
    /\ IdleFetch
    /\ IdleLate

Constructed(via, name, boardid, res, package) ==
    [via |-> via, name |-> name, boardid |-> boardid, res |-> res,
     package |-> package]

\* market.Market(name, boardid)
Construct(name, boardid) ==
    LET res == MarketNew(name, boardid, AVAILABLE)
    IN  /\ Len(constructions) < MaxConstructions
        /\ AVAILABLE' = IF res.kind = "return" THEN AVAILABLE \cup {res.obj}
                        ELSE AVAILABLE
        /\ constructions' =
               Append(constructions,
                      Constructed("market", name, boardid, res, None))
        /\ UNCHANGED <<pageVars, throttleVars, clients, respVars, dateVars,
                       olVars, wireVars,
                       resolveVars, opVars, resampleVars, fetchVars, lateVars>>

\* moexalgo.Market(name, boardid)
PackageConstruct(name, boardid) ==
    LET res == MarketNew(name, boardid, AVAILABLE)
    IN  /\ Len(constructions) < MaxConstructions
        /\ AVAILABLE' = IF res.kind = "return" THEN AVAILABLE \cup {res.obj}
                        ELSE AVAILABLE
        /\ constructions' =
               Append(constructions,
                      Constructed("package", name, boardid, res,
                                  PackageMarket(name, boardid, AVAILABLE)))
        /\ UNCHANGED <<pageVars, throttleVars, clients, respVars, dateVars,
                       olVars, wireVars,
                       resolveVars, opVars, resampleVars, fetchVars, lateVars>>

NextMarket ==
    \/ \E name \in MarketNames, boardid \in MarketBoards :
           Construct(name, boardid)
    \/ \E name \in MarketNames, boardid \in MarketBoards :
           PackageConstruct(name, boardid)

SpecMarket == InitMarket /\ [][NextMarket]_vars

ReturnedCalls ==
    {i \in 1..Len(constructions) : constructions[i].res.kind = "return"}

\* The (market name, board) pair the arguments of a call resolve to
ResolvedPair(c) ==
    LET path == ResolvedPath(c.name)
    IN  <<path[Len(path)], ResolvedBoard(c.name, c.boardid)>>

EquityCalls ==
    {i \in ReturnedCalls :
        /\ constructions[i].name \in
               {<<"EQ">>, <<"shares">>, <<"stocks">>, <<"stock">>}
        /\ constructions[i].boardid \in {None, "TQBR"}}

IndexCalls ==
    {i \in ReturnedCalls :
        /\ constructions[i].name = <<"index">>
        /\ constructions[i].boardid \in {None, "SNDX"}}

\* C12: two constructions return the identical instance exactly when they
\* resolve to the same (market name, board) pair; the equity aliases with
\* no board or TQBR return one object with path engines/stock/markets/shares
\* and board TQBR, and the index constructions return one other object.
C12_OneInstancePerMarketBoard ==
    /\ \A i, j \in ReturnedCalls :
           (constructions[i].res.obj.id = constructions[j].res.obj.id)
               <=> (ResolvedPair(constructions[i])
                        = ResolvedPair(constructions[j]))
    /\ \A i \in EquityCalls :
           /\ constructions[i].res.obj.path = StockPath("shares")
           /\ constructions[i].res.obj.boardid = "TQBR"
    /\ \A i \in EquityCalls, j \in IndexCalls :
           constructions[i].res.obj.id # constructions[j].res.obj.id

\* A name that is neither a known alias nor a path ending in a supported
\* market
UnknownName(name) ==
    /\ ~(Len(name) = 1 /\ name[1] \in DOMAIN ALIASES)
    /\ ~(Len(name) > 1 /\ name[Len(name)] \in AVAILABLE_KEYS)

\* C13: market.Market raises NotImplementedError for every name that is
\* neither a known alias nor a path ending in a supported market, and
\* moexalgo.Market then falls back to the new-style resolver.
C13_UnknownNameFallsBack ==
    \A i \in 1..Len(constructions) :
        UnknownName(constructions[i].name) =>
            /\ constructions[i].res = MarketRaised("NotImplementedError")
            /\ constructions[i].via = "package" =>
                   constructions[i].package = "NewMarket"

-----------------------------------------------------------------------------
(* SpecResolve: _resolve_ticker as a function of its arguments and of the
   reference data *)

SBER   == <<83, 66, 69, 82>>
VEON   == <<86, 69, 79, 78, 45, 82, 88>>   \* "VEON-RX"
GAZP   == <<71, 65, 90, 80>>
TQBR   == <<84, 81, 66, 82>>
SMAL   == <<83, 77, 65, 76>>
SPEQ   == <<83, 80, 69, 81>>
Dot    == <<46>>

SecidArgs ==
    {SBER, SBER \o Dot \o TQBR, SBER \o Dot \o SMAL,
     SBER \o Dot \o TQBR \o Dot \o SMAL, SBER \o Dot, VEON,
     VEON \o Dot \o TQBR, GAZP}
BoardArgs == {NoBoard, BoardArg(TQBR), BoardArg(SMAL)}

BoardIds == <<TQBR, SMAL, SPEQ>>

\* The board listings of a symbol: rows of distinct boards in any order,
\* each flagged primary or not
BoardListings ==
    {[i \in 1..Len(ids) |-> BoardRow(BoardIds[ids[i]], prim[i])] :
        ids \in {q \in SeqsUpTo(1..Len(BoardIds), MaxBoards) :
                    \A i, j \in 1..Len(q) : i # j => q[i] # q[j]},
        prim \in [1..MaxBoards -> {0, 1}]}

InitResolve ==
    /\ \E secid \in SecidArgs, boardid \in BoardArgs, boards \in BoardListings :
           rsArgs = <<secid, boardid, [s \in {SBER, VEON} |-> boards]>>
    /\ rsRes = ResolvePending
    /\ IdlePages
    /\ IdleThrottle
    /\ IdleResponse
    /\ IdleDates
    /\ IdleOffsetLimit
    /\ IdleWire
    /\ IdleMarket
    /\ IdleOperations
    /\ IdleResample
    /\ IdleFetch
    /\ IdleLate

Resolve ==
    /\ rsRes = ResolvePending
    /\ rsRes' = resolve_ticker(rsArgs[1], rsArgs[2], rsArgs[3])
    /\ UNCHANGED <<pageVars, throttleVars, clients, respVars, dateVars, olVars,
                   wireVars, marketVars, rsArgs,
                   opVars, resampleVars, fetchVars, lateVars>>

NextResolve == Resolve

SpecResolve == InitResolve /\ [][NextResolve]_vars

\* The rows of the listing of the symbol the call looked up
ListedRows == BoardsOf(rsArgs[3], rsRes.secid)
RowsOfBoard(b) ==
    {i \in 1..Len(ListedRows) : ListedRows[i].boardid = b}
PrimaryRows ==
    {i \in 1..Len(ListedRows) : ListedRows[i].is_primary # 0}

\* C14: with a board argument that appears in the symbol's listing the call
\* returns the listing row of that board, primary or not; with no board it
\* returns the row flagged primary.
C14_ResolvesSuppliedBoard ==
    rsRes # ResolvePending =>
        /\ (rsArgs[2].given /\ RowsOfBoard(rsArgs[2].val) # {}) =>
               /\ rsRes.kind = "return"
               /\ rsRes.row.boardid = rsArgs[2].val
        /\ (~rsRes.boardid.given /\ PrimaryRows # {}) =>
               /\ rsRes.kind = "return"
               /\ rsRes.row.is_primary # 0

\* The characters a symbol is made of: letters, digits and the hyphen
IsSymbolChar(c) ==
    c \in (48..57) \cup (65..90) \cup (97..122) \cup {45}
SeparatorsAt(s) == {i \in 1..Len(s) : ~IsSymbolChar(s[i])}
FirstOf(S) == CHOOSE i \in S : \A j \in S : i <= j

\* C15: without a board argument the symbol is split at its first separator
\* character: the part before it is looked up as the symbol and the part
\* after it, up to the next separator, is the board; a symbol without
\* separator (a hyphen is none) is looked up whole with no board; with a
\* board argument the symbol is looked up as given.
C15_SplitAtFirstSeparator ==
    rsRes # ResolvePending =>
        LET secid == rsArgs[1]
            seps  == SeparatorsAt(secid)
        IN  IF rsArgs[2].given
            THEN rsRes.secid = secid /\ rsRes.boardid = rsArgs[2]
            ELSE IF seps = {}
            THEN rsRes.secid = secid /\ rsRes.boardid = NoBoard
            ELSE LET i    == FirstOf(seps)
                     rest == SubSeq(secid, i + 1, Len(secid))
                     stop == IF SeparatorsAt(rest) = {} THEN Len(rest)
                             ELSE FirstOf(SeparatorsAt(rest)) - 1
                 IN  /\ rsRes.secid = SubSeq(secid, 1, i - 1)
                     /\ rsRes.boardid = BoardArg(SubSeq(rest, 1, stop))

C15_Witness ==
    /\ rsArgs[1] = SBER \o Dot \o TQBR
    /\ rsArgs[2] = NoBoard
    /\ rsRes.kind = "return"
    /\ rsRes.secid = SBER
    /\ rsRes.boardid = BoardArg(TQBR)

-----------------------------------------------------------------------------
(* SpecOperations: futoi, alerts and orderbook calls on the markets and
   tickers of every path *)

MarketPaths ==
    {StockPath("shares"), StockPath("index"), SeltPath, FortsPath,
     OtcSharesPath}
TickerPaths == {StockPath("shares"), StockPath("index"), SeltPath, FortsPath}

InitOperations ==
    /\ lastOp = NoOperation
    /\ opCount = 0
    /\ draining = 0
    /\ IdlePages
    /\ IdleThrottle
    /\ IdleResponse
    /\ IdleDates
    /\ IdleOffsetLimit
    /\ IdleWire
    /\ IdleMarket
    /\ IdleResolve
    /\ IdleResample
    /\ IdleFetch
    /\ IdleLate

NextOperations ==
    \/ \E path \in MarketPaths, dataframe \in BOOLEAN :
           Futoi(path, dataframe)
    \/ \E path \in MarketPaths, dataframe \in BOOLEAN, calls \in 1..MaxPages :
           Alerts(path, dataframe, calls)
    \/ \E path \in TickerPaths, dataframe \in BOOLEAN :
           Orderbook(path, dataframe)
    \/ Drain

SpecOperations == InitOperations /\ [][NextOperations]_vars

\* The engine a path belongs to
EngineOf(path) == path[2]

UnsupportedOperation(o) ==
    \/ o.op = "futoi" /\ EngineOf(o.path) # "futures"
    \/ o.op = "alerts" /\ EngineOf(o.path) # "stock"
    \/ o.op = "orderbook" /\ EngineOf(o.path) = "currency"

\* C16: futoi on a non-futures market, alerts on a non-stock market and
\* orderbook on a currency ticker end with NotImplementedError in a step
\* that makes no transport call and leaves the throttle watermark as it was.
C16_UnsupportedFailsFirst ==
    [][(opCount' = opCount + 1 /\ UnsupportedOperation(lastOp')) =>
           /\ lastOp'.outcome = "NotImplementedError"
           /\ sends' = sends
           /\ NEXT_REQUEST_AT' = NEXT_REQUEST_AT
           /\ draining' = 0]_vars

C16_Witness ==
    /\ UnsupportedOperation(lastOp)
    /\ lastOp.outcome = "NotImplementedError"
    /\ Len(sends) > 0
    /\ NEXT_REQUEST_AT > 0
    /\ draining = 0

-----------------------------------------------------------------------------
(* SpecResample: Resampler.it over trade statistics that are time-ordered
   per ticker *)

\* The tickers of the listings of the EQ, FX and FO markets (ticker_args),
\* and one that is in none of them
ListedTickers == {"SBER", "GAZP"}
Tickers       == ListedTickers \cup {"OTHER"}
Shapes        == {1, 2}

InitResample ==
    /\ resPeriod \in 1..MaxPeriod
    /\ resInput = <<>>
    /\ resamplers = [t \in ListedTickers |-> NoResampler]
    /\ resOrder = <<>>
    /\ resOut = <<>>
    /\ resDone = FALSE
    /\ IdlePages
    /\ IdleThrottle
    /\ IdleResponse
    /\ IdleDates
    /\ IdleOffsetLimit
    /\ IdleWire
    /\ IdleMarket
    /\ IdleResolve
    /\ IdleOperations
    /\ IdleFetch
    /\ IdleLate

\* The input is time-ordered per ticker
InOrder(ticker, slot) ==
    \A i \in 1..Len(resInput) :
        resInput[i].ticker = ticker => resInput[i].slot < slot

\* One pass of `for item in data` in Resampler.it, with resampler(item)
Feed(ticker, slot, shape) ==
    /\ ~resDone
    /\ Len(resInput) < MaxRecords
    /\ InOrder(ticker, slot)
    /\ resInput' = Append(resInput, Item(ticker, slot, shape))
    /\ IF ticker \notin ListedTickers
       THEN UNCHANGED <<resamplers, resOrder, resOut>>
       ELSE LET r  == IF resamplers[ticker].live THEN resamplers[ticker]
                      ELSE ResamplerObject(FirstWindow(slot), <<>>)
                w  == WindowOf(r.begin, resPeriod, slot)
                kept == IF w = r.begin THEN r.accum ELSE <<>>
            IN  /\ resamplers' =
                       [resamplers EXCEPT ![ticker] =
                           ResamplerObject(w,
                               Append(kept, Accumulated(slot, shape, w)))]
                /\ resOrder' = IF resamplers[ticker].live THEN resOrder
                               ELSE Append(resOrder, ticker)
                /\ resOut' = IF w # r.begin /\ HasResult(r)
                             THEN Append(resOut,
                                      WindowRecord(ticker, r.begin, resPeriod,
                                                   r.accum))
                             ELSE resOut
    /\ UNCHANGED <<pageVars, throttleVars, clients, respVars, dateVars, olVars,
                   wireVars, marketVars, resolveVars, opVars, resPeriod,
                   resDone,
                   fetchVars, lateVars>>

\* The closing loop of Resampler.it: resampler() of every resampler
Finish ==
    /\ ~resDone
    /\ resDone' = TRUE
    /\ resOut' = resOut \o Remaining(resOrder, resamplers, resPeriod)
    /\ resamplers' = [t \in ListedTickers |->
                         IF resamplers[t].live
                         THEN ResamplerObject(resamplers[t].begin, <<>>)
                         ELSE resamplers[t]]
    /\ UNCHANGED <<pageVars, throttleVars, clients, respVars, dateVars, olVars,
                   wireVars, marketVars, resolveVars, opVars, resPeriod,
                   resInput, resOrder,
                   fetchVars, lateVars>>

NextResample ==
    \/ \E ticker \in Tickers, slot \in 0..MaxSlot, shape \in Shapes :
           Feed(ticker, slot, shape)
    \/ Finish

SpecResample == InitResample /\ [][NextResample]_vars

\* The input records of a ticker that lie in the window beginning at `begin`,
\* in input order
InputOf(ticker, begin) ==
    SelectSeq(resInput,
              LAMBDA r : /\ r.ticker = ticker
                         /\ begin <= r.slot /\ r.slot + 1 <= begin + resPeriod)
EmittedFor(ticker, begin) ==
    {i \in 1..Len(resOut) :
        resOut[i].ticker = ticker /\ resOut[i].begin = begin}
WindowBegins == {k * resPeriod : k \in 0..MaxSlot}

RECURSIVE MaxOf(_, _)
MaxOf(rs, f) ==
    IF Len(rs) = 1 THEN TradeStat(rs[1].shape)[f]
    ELSE Max(TradeStat(rs[1].shape)[f], MaxOf(Tail(rs), f))
RECURSIVE MinOf(_, _)
MinOf(rs, f) ==
    IF Len(rs) = 1 THEN TradeStat(rs[1].shape)[f]
    ELSE Min(TradeStat(rs[1].shape)[f], MinOf(Tail(rs), f))

\* C18: an emitted trade-statistics window carries the pr_open of its first
\* record, the pr_close of its last, the maximum of the pr_high and the
\* minimum of the pr_low of its records.
C18_OpenHighLowClose ==
    \A i \in 1..Len(resOut) :
        LET rs == InputOf(resOut[i].ticker, resOut[i].begin)
        IN  /\ resOut[i].stat.pr_open = TradeStat(rs[1].shape).pr_open
            /\ resOut[i].stat.pr_close = TradeStat(rs[Len(rs)].shape).pr_close
            /\ resOut[i].stat.pr_high = MaxOf(rs, "pr_high")
            /\ resOut[i].stat.pr_low = MinOf(rs, "pr_low")

RECURSIVE InputFlow(_, _, _)
InputFlow(rs, t, f) ==
    IF rs = <<>> THEN 0
    ELSE (IF rs[1].ticker = t THEN TradeStat(rs[1].shape)[f] ELSE 0)
         + InputFlow(Tail(rs), t, f)
RECURSIVE EmittedFlow(_, _, _)
EmittedFlow(ws, t, f) ==
    IF ws = <<>> THEN 0
    ELSE (IF ws[1].ticker = t THEN ws[1].stat.flows[f] ELSE 0)
         + EmittedFlow(Tail(ws), t, f)

\* C19: for every ticker of the input and every summed integer field, the
\* emitted windows of the ticker add up to the input records of the ticker.
C19_FlowsConserved ==
    resDone =>
        \A t \in Tickers, f \in FlowFields :
            EmittedFlow(resOut, t, f) = InputFlow(resInput, t, f)

\* The flows of every ticker of the listings are conserved, and no other
\* ticker is emitted
ListedFlowsConserved ==
    resDone =>
        /\ \A t \in ListedTickers, f \in FlowFields :
               EmittedFlow(resOut, t, f) = InputFlow(resInput, t, f)
        /\ \A i \in 1..Len(resOut) : resOut[i].ticker \in ListedTickers

-----------------------------------------------------------------------------
(* SpecFetch: one fetch_section run against a paged source *)

InitFetch ==
    /\ srcN \in 0..MaxN
    /\ srcP \in 1..MaxP
    /\ srcMode = "paged"
    /\ gen = [r \in Runs |-> NoGen]
    /\ fetch = NoFetch
    /\ IdleThrottle
    /\ IdleResponse
    /\ IdleDates
    /\ IdleOffsetLimit
    /\ IdleWire
    /\ IdleMarket
    /\ IdleResolve
    /\ IdleOperations
    /\ IdleResample
    /\ IdleLate

NextFetch ==
    \/ \E offset \in Offsets, limit \in Limits : FetchSection(offset, limit)
    \/ \E ok \in BOOLEAN : FetchNext(ok)

SpecFetch == InitFetch /\ [][NextFetch]_vars

\* C20: a run with a positive limit L against a source that holds more than
\* L records from the offset on ends having yielded exactly L records,
\* whatever the page size.
C20_ExactlyLimit ==
    (fetch.pc = "done" /\ fetch.limit > 0
        /\ srcN - fetch.offset > fetch.limit) =>
        Len(fetch.out) = fetch.limit

-----------------------------------------------------------------------------
(* SpecCandles: prepare_request calls feeding one data_gen run *)

CandleRuns    == {"g1"}
CandleDates   == {NoArg, DateArg(<<2024, 2, 29>>)}
CandleToday   == <<2024, 3, 1>>
CandlePeriods == {NoInt, IntArg(10), IntArg(5)}
CandleOffsets == {NoInt, IntArg(1)}
CandleLimits  == {NoInt, IntArg(-1), IntArg(1), IntArg(2)}

InitCandles ==
    /\ srcN \in 0..MaxN
    /\ srcP \in 1..MaxP
    /\ srcMode = "paged"
    /\ gen = [r \in Runs |-> NoGen]
    /\ IdleThrottle
    /\ IdleResponse
    /\ IdleDates
    /\ IdleOffsetLimit
    /\ IdleExt

NextCandles ==
    \/ \E r \in CandleRuns, from \in CandleDates, till \in CandleDates,
          period \in CandlePeriods, offset \in CandleOffsets,
          limit \in CandleLimits, latest \in BOOLEAN :
           PrepareRequest(r, from, till, CandleToday, period, offset, limit,
                          latest)
    \/ \E r \in CandleRuns : NextRecord(r)
    \/ \E r \in CandleRuns : Abandon(r)

SpecCandles == InitCandles /\ [][NextCandles]_vars

\* C21: a prepare_request call with latest=True that reaches data_gen has
\* put the reverse-order flag into the options and runs with limit 1
\* whatever limit was passed; the run makes at most one transport call and,
\* once it has ended without an error, has yielded the first record of the
\* first page when that page has rows and nothing otherwise, after exactly
\* one transport call.
C21_LatestYieldsOne ==
    \A r \in Runs :
        (candleReq[r].kind = "return" /\ candleReq[r].latest) =>
            /\ candleReq[r].options.reverse
            /\ gen[r].limit = 1
            /\ Len(gen[r].starts) <= 1
            /\ Len(gen[r].out) <= 1
            /\ gen[r].pc = "done" =>
                  /\ gen[r].starts = <<gen[r].offset>>
                  /\ gen[r].out =
                        IF Page(gen[r].offset) = <<>> THEN <<>>
                        ELSE <<Page(gen[r].offset)[1]>>

\* The caller asked for two records of a source that has them, with
\* latest=True, and the run has ended with one
C21_Witness ==
    \E r \in Runs :
        /\ candleReq[r].kind = "return" /\ candleReq[r].latest
        /\ candleReq[r].asked = IntArg(2)
        /\ gen[r].pc = "done"
        /\ Len(Page(gen[r].offset)) >= 2
        /\ Len(gen[r].out) = 1

-----------------------------------------------------------------------------
(* Spec: the cursor of a data_gen run *)

\* The step makes a transport call for run r
CallsTransport(r) == Len(gen'[r].starts) = Len(gen[r].starts) + 1

\* C22: the `start` sent with a transport call of a run is its offset plus
\* the number of records the run has yielded so far; the call is made only
\* when every record of the page fetched before has been yielded; and a
\* step of one run leaves the cursor and everything else of the other run
\* alone.
C22_CursorFollowsYields ==
    [][\A r \in Runs :
          /\ Len(gen'[r].starts) >= Len(gen[r].starts)
          /\ Len(gen'[r].starts) <= Len(gen[r].starts) + 1
          /\ CallsTransport(r) =>
                /\ gen'[r].starts[Len(gen'[r].starts)]
                      = gen[r].offset + Len(gen[r].out)
                /\ gen[r].idx = Len(gen[r].metrics)
                /\ SubSeq(gen'[r].starts, 1, Len(gen[r].starts)) = gen[r].starts
          /\ \A q \in Runs \ {r} : gen'[r] # gen[r] => gen'[q] = gen[q]]_vars

\* A run with offset 1 makes its second call with start 2 after one record,
\* while the other run, created with offset 0, has made its first call with
\* start 0
C22_Witness ==
    \E r, q \in Runs :
        /\ r # q
        /\ gen[r].offset = 1 /\ gen[r].starts = <<1, 2>>
        /\ Len(gen[r].out) = 2
        /\ gen[q].offset = 0 /\ gen[q].starts = <<0>>
        /\ gen[q].pc = "suspended"

-----------------------------------------------------------------------------
(* Spec: laziness of a data_gen run *)

\* Every page the run has fetched holds a record the run has yielded, unless
\* the call failed or was answered with an empty page
NoReadAhead(g) ==
    g.pc \in {"created", "suspended", "closed"} =>
        \A i \in 1..Len(g.starts) : g.starts[i] - g.offset < Len(g.out)

\* C23: creating the generator makes no transport call; whenever the
\* consumer holds k records, only the pages holding those records have been
\* fetched; an abandoned run does nothing further, and the watermark moves
\* only in a step in which a run that is not abandoned makes a transport
\* call for a record the consumer asked for.
C23_LazyNoReadAhead ==
    [][\A r \in Runs :
          /\ gen[r].pc = "none" => gen'[r].starts = <<>>
          /\ gen'[r].pc = "created" => gen'[r].starts = <<>>
          /\ NoReadAhead(gen'[r])
          /\ gen[r].pc = "closed" => gen'[r] = gen[r]
          /\ CallsTransport(r) => gen[r].pc \in {"created", "suspended"}
          /\ (NEXT_REQUEST_AT' # NEXT_REQUEST_AT \/ sends' # sends)
                => \E q \in Runs : CallsTransport(q)]_vars

\* The consumer took one record of a source of single-record pages that
\* held more, then dropped the iterator: one call was made
C23_Witness ==
    \E r \in Runs :
        /\ gen[r].pc = "closed"
        /\ srcP = 1 /\ srcN >= 2 /\ srcMode = "paged"
        /\ gen[r].limit = 2
        /\ Len(gen[r].out) = 1
        /\ Len(gen[r].starts) = 1
        /\ Len(sends) = 1

-----------------------------------------------------------------------------
(* SpecThreads: two threads in get_objects of unauthorized blocking clients *)

InitThreads ==
    /\ IdlePages
    /\ IdleThrottle
    /\ IdleResponse
    /\ IdleDates
    /\ IdleOffsetLimit
    /\ IdleExt

NextThreads ==
    \/ \E t \in Threads : ThreadRead(t)
    \/ \E t \in Threads : ThreadWrite(t)
    \/ ThreadTick

SpecThreads == InitThreads /\ [][NextThreads]_vars

\* Thread a has written the watermark before thread b read it
Serial(a, b) == thr[a].writeAt < thr[b].readAt

\* C24 as stated: under every interleaving of the reads and writes of the
\* watermark, the requests of the two threads go out at least
\* _REQUEST_TIMEOUT apart.
C24_NoLostUpdate ==
    \A a, b \in Threads :
        (a # b /\ thr[a].pc = "sent" /\ thr[b].pc = "sent") =>
            \/ thr[b].at - thr[a].at >= REQUEST_TIMEOUT
            \/ thr[a].at - thr[b].at >= REQUEST_TIMEOUT

\* C24 amended: the requests of two calls go out at least _REQUEST_TIMEOUT
\* apart when one call has written the watermark before the other reads it.
C24_SerialCallsSpaced ==
    \A a, b \in Threads :
        (a # b /\ thr[a].pc = "sent" /\ thr[b].pc = "sent" /\ Serial(a, b)) =>
            thr[b].at - thr[a].at >= REQUEST_TIMEOUT

\* Two calls one after the other, time passing inside the second: the
\* second request waits for the watermark of the first
C24_Witness ==
    \E a, b \in Threads :
        /\ a # b /\ thr[a].pc = "sent" /\ thr[b].pc = "sent" /\ Serial(a, b)
        /\ thr[b].timeout # NoWaitTimeout
        /\ thr[b].at - thr[a].at > REQUEST_TIMEOUT

-----------------------------------------------------------------------------
(* SpecWindows: resample over the time-ordered records of one ticker *)

IntPeriod(n) == [tag |-> "int", val |-> n]
StrPeriod(s) == [tag |-> "str", val |-> s]

\* 0, 5, 7, 25, '10min', '7min', '1h', '1d', '1w', '1m', '5'
PeriodArgs ==
    {IntPeriod(0), IntPeriod(5), IntPeriod(7), IntPeriod(25),
     StrPeriod(<<Digit(1), Digit(0)>> \o SymMin),
     StrPeriod(<<Digit(7)>> \o SymMin),
     StrPeriod(<<Digit(1)>> \o SymH), StrPeriod(<<Digit(1)>> \o SymD),
     StrPeriod(<<Digit(1)>> \o SymW), StrPeriod(<<Digit(1)>> \o SymM),
     StrPeriod(<<Digit(5)>>)}

\* The `begin` of the records: the first slots of a day and one slot of the
\* day after
RecordBegins == {5 * k : k \in 0..MaxWinSlot} \cup {DayMinutes + 5}

TimeOrdered(s) == \A i, j \in 1..Len(s) : i < j => s[i] < s[j]

InitWindows ==
    /\ \E arg \in PeriodArgs :
        \E input \in {s \in SeqsUpTo(RecordBegins, MaxWinRecords) : TimeOrdered(s)} :
            win = WindowsState("start", None, arg, 0, input, 0, FALSE, 0, 0,
                               <<>>, <<>>)
    /\ IdleCandles
    /\ IdleThreads
    /\ IdleStomp
    /\ IdlePages
    /\ IdleThrottle
    /\ IdleResponse
    /\ IdleDates
    /\ IdleOffsetLimit
    /\ IdleWire
    /\ IdleMarket
    /\ IdleResolve
    /\ IdleOperations
    /\ IdleResample
    /\ IdleFetch

NextWindows ==
    \/ ResampleCall
    \/ TakeItem
    \/ SearchWindow

\* The call runs on: nothing but its own steps is needed for it to go on
SpecWindows == InitWindows /\ [][NextWindows]_vars /\ WF_vars(NextWindows)

\* Midnight of the date of the first input record
FirstMidnight == (win.input[1] \div DayMinutes) * DayMinutes

\* C25: every emitted window spans the period and begins a whole number of
\* periods after midnight of the date of the first record; the emitted
\* windows do not overlap and begin later and later; the records accumulated
\* in the current window lie inside it, and every record consumed lies in the
\* current window or in an emitted one.
C25_WindowsAlignedAndDisjoint ==
    /\ \A i \in 1..Len(win.out) :
          /\ win.out[i].end - win.out[i].begin = win.period
          /\ win.out[i].begin >= FirstMidnight
          /\ (win.out[i].begin - FirstMidnight) % win.period = 0
    /\ \A i, j \in 1..Len(win.out) :
          i < j => /\ win.out[i].begin < win.out[j].begin
                   /\ win.out[i].end <= win.out[j].begin
    /\ \A k \in 1..Len(win.accum) :
          win.begin <= win.accum[k] /\ win.accum[k] + 5 <= win.end
    /\ \A k \in 1..win.taken :
          \/ \E a \in 1..Len(win.accum) : win.accum[a] = win.input[k]
          \/ \E i \in 1..Len(win.out) :
                /\ win.out[i].begin <= win.input[k]
                /\ win.input[k] + 5 <= win.out[i].end

\* Windows of 25 minutes over a record of the first day and one of the day
\* after: the second window begins 57 periods after the first midnight, not
\* at the second midnight
C25_Witness ==
    /\ win.pc = "done"
    /\ win.period = 25
    /\ win.input = <<5, DayMinutes + 5>>
    /\ win.out = <<Emitted(0, 25), Emitted(57 * 25, 58 * 25)>>

\* C28: a resample call whose period normalize_period accepts, over a
\* non-empty time-ordered input, comes to its end with a result: once it is
\* in the loop of Resampler.it it eventually leaves it, every window search
\* reaching a window that holds the record.
C28_ResampleTerminates ==
    (win.pc \in {"loop", "search"}) ~> (win.pc = "done")

-----------------------------------------------------------------------------
(* SpecWire: null cells *)

\* The cells of row k that item_normalizer is given
CellsOf(k) == 1..Min(Len(wire.columns), Len(wire.data[k]))

\* C26: in every record result_deserializer returns, a null cell is null
\* whatever the declared type of its column, the raw-string fallback
\* included, and the date '0000-00-00' is null.
C26_NullStaysNull ==
    wireRes.kind = "return" =>
        \A k \in 1..Len(wire.data) : \A i \in CellsOf(k) :
            /\ wire.data[k][i] = NullCell
                  => wireRes.items[k][i].value = PyNone
            /\ (wire.data[k][i] = TextCell(ZeroDateStr)
                  /\ wire.metadata[wire.columns[i]] = "date")
                  => wireRes.items[k][i].value = PyNone

-----------------------------------------------------------------------------
(* SpecThrottle: the watermark over time *)

\* C27: no get_objects call, of a blocking or a cooperative client,
\* authorized or not, leaves the watermark lower than it found it.
C27_WatermarkNeverDecreases ==
    [][NEXT_REQUEST_AT' >= NEXT_REQUEST_AT]_vars

-----------------------------------------------------------------------------
(* SpecStomp: one ISSPlusSTOMP connection with its listener, its consumers,
   the server and the calls of the application *)

StompCmds == {"MESSAGE", "RECEIPT", "ERROR"}

\* After __aenter__: nothing pending, the listener task created; the
\* interpreter runs with or without assert statements
InitStomp ==
    /\ \E a \in BOOLEAN : stomp = [NoStomp EXCEPT !.asserts = a]
    /\ IdleCandles
    /\ IdleThreads
    /\ IdleWindows
    /\ IdlePages
    /\ IdleThrottle
    /\ IdleResponse
    /\ IdleDates
    /\ IdleOffsetLimit
    /\ IdleWire
    /\ IdleMarket
    /\ IdleResolve
    /\ IdleOperations
    /\ IdleResample
    /\ IdleFetch

NextStomp ==
    \/ \E id \in SubIds : Subscribe(id)
    \/ \E id \in FutIds : Request(id)
    \/ \E id \in SubIds \cup FutIds : \E cmd \in StompCmds : ServerSend(id, cmd)
    \/ Listen
    \/ \E id \in SubIds : Consume(id)
    \/ \E id \in SubIds : UnsubscribeSend(id)
    \/ \E id \in SubIds : UnsubscribePop(id)
    \/ Close
    \/ CloseStep
    \/ CloseUnsubscribed

\* close() runs on once called: its loop needs no other task, and the send
\* it awaits completes
SpecStomp ==
    /\ InitStomp
    /\ [][NextStomp]_vars
    /\ WF_vars(CloseStep)
    /\ WF_vars(CloseUnsubscribed)

\* C29: close(), once inside its loop, ends with the pending map empty and
\* the websocket closed, whatever subscriptions and request futures are
\* pending
C29_CloseTerminates ==
    (stomp.close = "loop")
        ~> (stomp.close = "closed" /\ stomp.pending = <<>> /\ ~stomp.ws)

\* C30: with two subscriptions on the connection, while it is not being
\* closed, the listener is running after the application has unsubscribed
\* one of them and the other is still pending, whatever frames for the
\* unsubscribed id the listener had to read
C30_ListenerSurvivesUnsubscribe ==
    (/\ stomp.close = "none"
     /\ \E i, j \in SubIds :
            /\ i # j
            /\ stomp.unsub[i] = "done"
            /\ j \in PendingIds(stomp.pending))
        => stomp.listener = "running"

====
